---- MODULE Spec2Model ----
(***************************************************************************)
(* Model of blog-log's import pipeline: the ImportManager job orchestrator *)
(* (services/import/import-manager.ts) and the importers it launches.      *)
(*                                                                         *)
(* Strings the code inspects are sequences of tokens (a URL is             *)
(* <<"https://", "Blog.example", "/feed", "/">>), so that the URL          *)
(* normalisation is computed, not assumed.  A nullable field is <<>> for   *)
(* null and <<v>> for the value v.  A timestamp is the ordinal of the      *)
(* Date() reading within its job: it grows with arrival order.             *)
(***************************************************************************)
EXTENDS Integers, Sequences, FiniteSets, TLC

VARIABLES
    jobs,               \* ImportManager.jobs: jobId -> ImportJobState
    listeners,          \* ImportManager.listeners, in subscription order
    queryClient,        \* ImportManager.queryClient is set (TRUE) or null
    autoDismissTimers,  \* keys of ImportManager.autoDismissTimers
    timeouts,           \* runtime timeouts scheduled and neither fired nor cleared
    task,               \* per job id: the importer promise and its callbacks
    arrived,            \* per job id: every log message pushed, in arrival order
    published,          \* the notify() rounds of the last step
    lastOp,             \* the last operation, its argument and its result
    imp,                \* the Wayback importer run (importFromWayback)
    db,                 \* the SQLite tables the importers write
    runs,               \* the History4Feed and File importer runs
    tr,                 \* the summarize call (textrank.ts)
    sim,                \* the similarity index and query (similarity.ts)
    backlog,            \* the summarization backlog run
    wire                \* the fetchWithRetry calls so far: requests, answers and waits

vars == <<jobs, listeners, queryClient, autoDismissTimers, timeouts, task,
          arrived, published, lastOp, imp, db, runs, tr, sim, backlog, wire>>

mgrVars == <<jobs, listeners, queryClient, autoDismissTimers, timeouts, task,
             arrived, published, lastOp>>

importVars == <<imp, db, runs>>

nlpVars == <<tr, sim, backlog>>

----------------------------------------------------------------------------
(* Bounds of the model *)

MaxJobs == 2          \* jobs started in the orchestrator specification
SoloJobs == 1         \* jobs started in the observer, log and fair specifications
SpecListeners == 1    \* subscriptions held at once in the orchestrator specification
MaxEvents == 2        \* progress events of one importer (the first included)
MaxListeners == 2     \* subscriptions held at once in the observer specification
MaxLogEvents == 101   \* progress events of the importer in the log specification
MaxPageFetches == 2   \* feed pages after the first that may answer
MaxRuns == 2          \* History4Feed and File imports running at once
SoloRuns == 1         \* imports in the every-failure specification
MaxH4fPages == 2      \* posts pages a History4Feed server serves
MaxSentences == 3     \* sentences of a text given to summarize
MaxSummary == 3       \* numSentences asked of summarize
MaxIterations == 2    \* PageRank iterations followed
MaxDocs == 3          \* articles of a corpus, embeddings of a list
MaxTopN == 2          \* topN asked of findSimilar
MaxPending == 12      \* articles of a summarization backlog
StaleWindow == 2      \* pages at each end of a crawl that may bring nothing new
MaxSnapshots == 61    \* timestamps of a snapshot index
MaxDismissJobs == 2   \* jobs started in the dismissal specification

(* Program constants *)

LogCap == 100

JobIds == 1..(IF MaxJobs > SoloJobs THEN MaxJobs ELSE SoloJobs)

Null == <<>>
Some(v) == <<v>>

Range(s) == {s[i] : i \in 1..Len(s)}

----------------------------------------------------------------------------
(* Inputs *)

UrlA == <<"https://", "Blog.example", "/feed", "/">>
UrlB == <<"blog.example", "/feed">>
UrlC == <<"http://", "other.example", "/rss">>
Urls == {UrlA, UrlB}

FeedIds == {"feed1", "feed2"}

BlogTitleText == <<"My Blog">>
EmptyText == <<>>

Listeners == {"obsA", "obsB"}
ThrowingListeners == {"obsB"}

JsonDisplayName == <<"JSON file">>

----------------------------------------------------------------------------
(* String operations of isAlreadyImporting *)

LowerTok(t) ==
    CASE t = "Blog.example" -> "blog.example"
      [] t = "My Blog" -> "my blog"
      [] t = "JSON file" -> "json file"
      [] t = "Cats" -> "cats"
      [] OTHER -> t

ToLowerCase(s) == [i \in 1..Len(s) |-> LowerTok(s[i])]

\* .replace(/^https?:\/\//, "")
StripScheme(s) ==
    IF Len(s) > 0 /\ s[1] \in {"http://", "https://"} THEN Tail(s) ELSE s

\* .replace(/\/+$/, "")
RECURSIVE StripTrailingSlashes(_)
StripTrailingSlashes(s) ==
    IF Len(s) > 0 /\ s[Len(s)] = "/"
    THEN StripTrailingSlashes(SubSeq(s, 1, Len(s) - 1))
    ELSE s

normalize(url) == StripTrailingSlashes(StripScheme(ToLowerCase(url)))

\* The field of the job that isAlreadyImporting compares with the target.
ComparedField(job) == job.blogTitle

\* isAlreadyImporting: the ids of the running jobs that match (the code returns
\* the first one, and its callers only test the result for null).
isAlreadyImporting(jobsMap, feedUrl) ==
    {j \in DOMAIN jobsMap :
        /\ jobsMap[j].status = "running"
        /\ normalize(ComparedField(jobsMap[j])) = normalize(feedUrl)}

----------------------------------------------------------------------------
(* notify *)

\* The listeners invoked by one notify(): the loop goes on after a listener
\* that throws (try/catch around each call).
RECURSIVE InvokedFrom(_, _)
InvokedFrom(ls, i) ==
    IF i > Len(ls) THEN <<>>
    ELSE <<ls[i]>> \o InvokedFrom(ls, i + 1)

\* The same loop without the try/catch: the first throw ends it.
InvokedNoCatch(ls) ==
    LET throwing == {i \in 1..Len(ls) : ls[i] \in ThrowingListeners}
    IN  IF throwing = {} THEN ls
        ELSE SubSeq(ls, 1, CHOOSE i \in throwing : \A k \in throwing : i <= k)

Invoked(ls) == InvokedFrom(ls, 1)

notify(ls, jobsMap) == [to |-> Invoked(ls), jobs |-> jobsMap]

----------------------------------------------------------------------------
(* Job records *)

LogEntry(ts, msg) == [timestamp |-> ts, message |-> msg]

\* the slice keeping the oldest entries instead of the newest
\* job.log.push(e); if (job.log.length > 100) job.log = job.log.slice(-100)
PushCapped(log, e) ==
    LET l == Append(log, e)
    IN IF Len(l) > LogCap THEN SubSeq(l, Len(l) - LogCap + 1, Len(l)) ELSE l

\* job.log.push(e), as handleComplete and handleError do
Push(log, e) == Append(log, e)

NewJob(jobId, displayName, source) ==
    [jobId |-> jobId,
     blogId |-> Null,
     blogTitle |-> displayName,
     feedUrl |-> displayName,
     source |-> source,
     status |-> "running",
     phase |-> "metadata",
     totalItems |-> 0,
     importedItems |-> 0,
     message |-> <<"Starting import...">>,
     error |-> Null,
     startedAt |-> 1,
     completedAt |-> Null,
     log |-> <<LogEntry(1, <<"Import started">>)>>]

initJob(jobsMap, jobId, displayName, source) ==
    jobId :> NewJob(jobId, displayName, source) @@ jobsMap

\* if (progress.blogTitle): null, undefined and "" are falsy
Truthy(t) == t # Null /\ t[1] # EmptyText

\* handleProgress on a job that is in the map; now is the Date() reading
ProgressedJob(job, progress, now) ==
    [job EXCEPT
        !.phase = progress.phase,
        !.totalItems = progress.total,
        !.importedItems = progress.imported,
        !.message = progress.message,
        !.blogTitle = IF Truthy(progress.blogTitle) THEN progress.blogTitle[1] ELSE @,
        !.log = PushCapped(@, LogEntry(now, progress.message))]

handleProgressJobs(jobsMap, jobId, progress, now) ==
    IF jobId \notin DOMAIN jobsMap THEN jobsMap
    ELSE [jobsMap EXCEPT ![jobId] = ProgressedJob(@, progress, now)]

\* `Import complete! ${job.importedItems} articles imported.`
CompleteMessage(n) == <<"Import complete!", ToString(n), "articles imported.">>

CompletedJob(job, blogId, now) ==
    [job EXCEPT
        !.status = "completed",
        !.blogId = blogId,
        !.completedAt = Some(now),
        !.message = CompleteMessage(job.importedItems),
        !.log = Push(@, LogEntry(now, CompleteMessage(job.importedItems)))]

\* `Import failed: ${message}`
FailedMessage(m) == <<"Import failed:", m>>

\* handleError leaving completedAt unset
FailedJobNoCompletedAt(job, message, now) ==
    [job EXCEPT
        !.status = "failed",
        !.error = Some(message),
        !.message = FailedMessage(message),
        !.log = Push(@, LogEntry(now, FailedMessage(message)))]

FailedJob(job, message, now) ==
    [job EXCEPT
        !.status = "failed",
        !.error = Some(message),
        !.completedAt = Some(now),
        !.message = FailedMessage(message),
        !.log = Push(@, LogEntry(now, FailedMessage(message)))]

----------------------------------------------------------------------------
(* The importers as ImportManager sees them: progress events, then one     *)
(* resolution or one rejection.                                            *)

Progress(total, imported, message, blogTitle) ==
    [phase |-> "metadata", total |-> total, imported |-> imported,
     message |-> message, blogTitle |-> blogTitle]

\* The event each importer emits before its first await, inside the start call.
FirstProgress(source) ==
    CASE source = "wayback" -> Progress(0, 0, <<"Fetching current feed...">>, Null)
      [] source = "history4feed" -> Progress(0, 0, <<"Fetching feed info...">>, Null)
      [] source = "json_file" -> Progress(0, 0, <<"Reading file...">>, Null)

\* Later events, by source.
LaterProgress(source) ==
    CASE source = "wayback" ->
            {Progress(0, 1, <<"Fetching feed page...">>, Null),
             Progress(0, 0, <<"Querying Wayback Machine for historical snapshots...">>,
                      Some(BlogTitleText))}
      [] source = "history4feed" ->
            {Progress(0, 0, <<"Fetching page...">>, Some(BlogTitleText)),
             Progress(2, 2, <<"Imported articles.">>, Null)}
      [] source = "json_file" ->
            {Progress(2, 0, <<"Found articles. Importing...">>, Null),
             Progress(2, 2, <<"Imported articles.">>, Null)}
      [] OTHER -> {}

ImporterErrors == {"Could not fetch or parse the RSS feed."}
InvalidateError == "invalidateQueries threw"

IdleTask == [pc |-> "idle", source |-> "none", emitted |-> 0, url |-> <<>>, feedId |-> ""]

\* generateId(): a fresh id (the random UUIDs are taken never to collide)
NextJobId == Cardinality({j \in JobIds : task[j].pc # "idle"}) + 1

\* A rejected then-callback is followed by its catch-callback before any timer
\* or user event runs.
NoPendingCatch == \A j \in JobIds : task[j].pc # "thenThrew"

StatusOf(jobsMap, j) == IF j \in DOMAIN jobsMap THEN jobsMap[j].status ELSE "absent"

Op(name, job) == [op |-> name, job |-> job, arg |-> ""]
OpOn(name, l) == [op |-> name, job |-> 0, arg |-> l]

----------------------------------------------------------------------------
(* The Wayback importer (services/import/wayback-fetcher.ts): pure parts *)

RATE_LIMIT_MS == 1100
DefaultRetries == 3       \* fetchWithRetry(url, maxRetries = 3)
PageRetries == 2          \* fetchWithRetry(pageUrl, 2)
MAX_PAGES == 100
SnapshotLimit == 30
batchSize == 50

\* What one fetch() attempt does: a 2xx response, a 429, another status, a throw.
FetchScripts ==
    {<<"ok", "ok", "ok">>, <<"429", "throw", "ok">>, <<"429", "429", "429">>,
     <<"status", "ok", "ok">>, <<"throw", "throw", "throw">>}

RECURSIVE Pow2(_)
Pow2(n) == IF n = 0 THEN 1 ELSE 2 * Pow2(n - 1)

RECURSIVE fetchAttempt(_, _, _, _)
fetchAttempt(script, attempt, maxRetries, slept) ==
    IF attempt >= maxRetries
    THEN [ok |-> FALSE, requests |-> attempt, slept |-> slept]
    ELSE CASE script[attempt + 1] = "429" ->
                fetchAttempt(script, attempt + 1, maxRetries,
                             Append(slept, RATE_LIMIT_MS * Pow2(attempt + 1)))
           [] script[attempt + 1] = "status" ->
                [ok |-> FALSE, requests |-> attempt + 1, slept |-> slept]
           [] script[attempt + 1] = "ok" ->
                [ok |-> TRUE, requests |-> attempt + 1, slept |-> slept]
           [] script[attempt + 1] = "throw" ->
                fetchAttempt(script, attempt + 1, maxRetries,
                             IF attempt < maxRetries - 1
                             THEN Append(slept, RATE_LIMIT_MS * Pow2(attempt))
                             ELSE slept)

fetchWithRetry(script, maxRetries) == fetchAttempt(script, 0, maxRetries, <<>>)

\* What a call of fetchWithRetry puts on the wire, in order: a request with
\* its answer, or a wait in milliseconds.
Request(answer) == [kind |-> "request", answer |-> answer, ms |-> 0]
Wait(ms) == [kind |-> "wait", answer |-> "", ms |-> ms]

RequestAll(script, attempt, maxRetries) == [k \in 1..Len(script) |-> Request(script[k])]

RECURSIVE fetchTrace(_, _, _)
fetchTrace(script, attempt, maxRetries) ==
    IF attempt >= maxRetries THEN <<>>
    ELSE CASE script[attempt + 1] = "429" ->
                <<Request("429"), Wait(RATE_LIMIT_MS * Pow2(attempt + 1))>>
                    \o fetchTrace(script, attempt + 1, maxRetries)
           [] script[attempt + 1] = "throw" ->
                <<Request("throw")>>
                    \o (IF attempt < maxRetries - 1
                        THEN <<Wait(RATE_LIMIT_MS * Pow2(attempt))>> ELSE <<>>)
                    \o fetchTrace(script, attempt + 1, maxRetries)
           [] OTHER -> <<Request(script[attempt + 1])>>

\* One call as the wire keeps it: whom it went to, what the server answers
\* to each attempt, its trace, its result, the body a successful call
\* delivered, and the wait the caller makes after it before it goes on.
Call(to, script, maxRetries, body, after) ==
    [to |-> to, maxRetries |-> maxRetries, answers |-> script,
     trace |-> fetchTrace(script, 0, maxRetries),
     ok |-> fetchWithRetry(script, maxRetries).ok,
     body |-> IF fetchWithRetry(script, maxRetries).ok THEN Some(body) ELSE Null,
     after |-> after]

\* normalizeFeedUrl: add the protocol if there is none, turn http into https.
normalizeFeedUrl(url) ==
    LET withScheme == IF Len(url) > 0 /\ url[1] \in {"http://", "https://"}
                      THEN url ELSE <<"https://">> \o url
    IN  IF withScheme[1] = "http://" THEN <<"https://">> \o Tail(withScheme)
        ELSE withScheme

\* A publish date as the sources write it: RFC 822 in RSS ("Tue, 02 Jan 2024"),
\* ISO 8601 in Atom and History4Feed ("2024-01-02").  m is the month number.
Rfc822(dow, d, m, y) == [format |-> "rfc822", dow |-> dow, d |-> d, m |-> m, y |-> y]
Iso8601(y, m, d) == [format |-> "iso8601", dow |-> "", d |-> d, m |-> m, y |-> y]

DateTue2Jan2024 == Rfc822("Tue", 2, 1, 2024)
DateMon6Jan2025 == Rfc822("Mon", 6, 1, 2025)
DateIso2023 == Iso8601(2023, 6, 15)

\* Feed items and the posts made from them (pubdate: Null or Some(date)).
Item(link, categories, words, pubdate) ==
    [link |-> link, categories |-> categories, words |-> words, pubdate |-> pubdate]

ItemA == Item("/post-1", <<"news">>, 3, Some(DateTue2Jan2024))
ItemB == Item("/post-2", <<>>, 0, Some(DateMon6Jan2025))
ItemOld == Item("/post-0", <<"archive">>, 5, Some(DateIso2023))
ItemNoLink == Item("", <<>>, 3, Null)

Feed(title, items) == [title |-> title, items |-> items]

\* A response body: what it is, its text, and what rssParser.parse makes of
\* the text (Null when it rejects).
Body(kind, text, parsed) == [kind |-> kind, text |-> text, parsed |-> parsed]

RssBody == Body("rss", <<"\n", "<?xml", "<rss">>, Some(Feed(Some(BlogTitleText), <<ItemA, ItemB>>)))
AtomBody == Body("atom", <<"<feed">>, Some(Feed(Null, <<ItemA, ItemNoLink, ItemA>>)))
EmptyRssBody == Body("rss", <<"<rss">>, Some(Feed(Some(BlogTitleText), <<>>)))
LinklessBody == Body("rss", <<"<rss">>, Some(Feed(Some(BlogTitleText), <<ItemNoLink>>)))
BrokenXmlBody == Body("rss", <<"<?xml", "<rss">>, Null)
HtmlBody == Body("html", <<"<html">>, Null)
HtmlDoctypeBody == Body("html", <<"<!DOCTYPE", "<html">>, Null)
HtmlDoctypeQuietBody == Body("html", <<" ", "<!DOCTYPE", "<html">>, Some(Feed(Null, <<>>)))
JsonBody == Body("json", <<"{">>, Null)
OlderPageBody == Body("rss", <<"<?xml", "<rss">>, Some(Feed(Some(BlogTitleText), <<ItemOld, ItemA>>)))
SamePageBody == Body("rss", <<"<rss">>, Some(Feed(Some(BlogTitleText), <<ItemA>>)))

FirstPageBodies ==
    {RssBody, AtomBody, EmptyRssBody, LinklessBody, BrokenXmlBody, HtmlBody,
     HtmlDoctypeBody, HtmlDoctypeQuietBody, JsonBody}

PageBodies == {OlderPageBody, SamePageBody, EmptyRssBody, HtmlDoctypeBody}

SnapshotBodies == {OlderPageBody, SamePageBody, BrokenXmlBody}

CdxRows == {<<>>, <<"timestamp">>, <<"timestamp", "2019">>, <<"timestamp", "2019", "2021">>}

Whitespace == {" ", "\n"}

RECURSIVE trimStart(_)
trimStart(text) ==
    IF text # <<>> /\ Head(text) \in Whitespace THEN trimStart(Tail(text)) ELSE text

startsWith(text, prefix) == text # <<>> /\ Head(text) = prefix

\* The check of the first page (<!DOCTYPE passes) and of the later pages.
LooksLikeXml(text) ==
    \E p \in {"<?xml", "<rss", "<feed", "<!DOCTYPE"} : startsWith(trimStart(text), p)

PageLooksLikeXml(text) ==
    \E p \in {"<?xml", "<rss", "<feed"} : startsWith(trimStart(text), p)

safeParseFeed(body) == body.parsed

extractPostsFromFeed(feed) == SelectSeq(feed.items, LAMBDA p : p.link # "")

TitleOf(feed) == IF feed.title = Null THEN <<"Unknown Blog">> ELSE feed.title[1]

Links(posts) == {posts[k].link : k \in 1..Len(posts)}

PushEvery(all, items) == all \o items

\* allItems.push(item) for the items whose link has not been seen.
RECURSIVE PushUnseen(_, _)
PushUnseen(all, items) ==
    IF items = <<>> THEN all
    ELSE IF Head(items).link # "" /\ Head(items).link \notin Links(all)
         THEN PushUnseen(Append(all, Head(items)), Tail(items))
         ELSE PushUnseen(all, Tail(items))

MapSetAllNone(all, items) == all

\* allPosts.set(link, item): a known link keeps its place and takes the new value.
RECURSIVE MapSetAll(_, _)
MapSetAll(all, items) ==
    IF items = <<>> THEN all
    ELSE IF Head(items).link = "" THEN MapSetAll(all, Tail(items))
    ELSE IF Head(items).link \in Links(all)
         THEN MapSetAll([k \in 1..Len(all) |->
                            IF all[k].link = Head(items).link THEN Head(items) ELSE all[k]],
                        Tail(items))
         ELSE MapSetAll(Append(all, Head(items)), Tail(items))

\* The first page of fetchPaginatedFeed: Null, or the title and the posts.
FirstPage(script, body, textThrows) ==
    IF ~fetchWithRetry(script, DefaultRetries).ok THEN Null
    ELSE IF textThrows THEN Null
    ELSE IF ~LooksLikeXml(body.text) THEN Null
    ELSE IF safeParseFeed(body) = Null THEN Null
    ELSE Some([title |-> TitleOf(safeParseFeed(body)[1]),
               items |-> extractPostsFromFeed(safeParseFeed(body)[1]),
               text |-> body.text])

SubstackTokens == {"substack.com", "substackcdn.com", "<generator>Substack</generator>"}

isSubstackFeedContent(text) == Range(text) \cap SubstackTokens # {}

\* detectPaginatedFeed, then the look at the content of the first page.
detectPaginatedFeed(url) ==
    IF "blog.substack.com" \in Range(ToLowerCase(url)) THEN Some("substack")
    ELSE IF "/feed" \in Range(ToLowerCase(url)) THEN Some("wordpress")
    ELSE Null

PaginationOf(url, text) ==
    IF detectPaginatedFeed(url) # Null THEN detectPaginatedFeed(url)
    ELSE IF isSubstackFeedContent(text) THEN Some("substack")
    ELSE Null

E_PARSE == "Could not fetch or parse the RSS feed. Please check the URL is a valid RSS/Atom feed."
E_EMPTY == "The feed was fetched but contains no articles. It may be empty or in an unsupported format."
E_SAVE == "Failed to save blog to database."
E_BEGIN == "cannot start a transaction within a transaction"

\* The two checks of currentFeed: "" lets the import go on.
FeedVerdictNoEmptyCheck(feed) == IF feed = Null THEN E_PARSE ELSE ""

FeedVerdict(feed) ==
    IF feed = Null THEN E_PARSE
    ELSE IF Len(feed[1].items) = 0 THEN E_EMPTY
    ELSE ""

EveryStep(snapshots) ==
    IF Len(snapshots) <= SnapshotLimit THEN snapshots
    ELSE LET step == Len(snapshots) \div SnapshotLimit
         IN  [k \in 1..((Len(snapshots) + step - 1) \div step) |->
                 snapshots[(k - 1) * step + 1]]

\* The selection of importFromWayback: every snapshot when there are at most
\* 30, else every step-th one from the oldest, step = floor(length / 30), and
\* the newest (the oldest is always among the picked, so it is never
\* unshifted).
SelectSnapshots(snapshots) ==
    IF Len(snapshots) <= SnapshotLimit THEN snapshots
    ELSE LET step == Len(snapshots) \div SnapshotLimit
             n == (Len(snapshots) + step - 1) \div step
             picked == [k \in 1..n |-> snapshots[(k - 1) * step + 1]]
         IN  IF snapshots[Len(snapshots)] \in Range(picked) THEN picked
             ELSE Append(picked, snapshots[Len(snapshots)])

BlogId == "blog-1"
ImportJobId == "import-1"

IdleImport ==
    [pc |-> "idle", url |-> <<>>, page1 |-> Null, title |-> <<>>, items |-> <<>>,
     pagination |-> Null, page |-> 0, consecutiveEmpty |-> 0, snapshots |-> <<>>,
     selected |-> <<>>,
     i |-> 0, allPosts |-> <<>>, imported |-> 0, result |-> "pending",
     error |-> "", events |-> <<>>, failures |-> {}]

EmptyDb ==
    [blogs |-> {}, importJobs |-> {}, articles |-> {}, articleTags |-> {},
     articlesFts |-> {}, inTransaction |-> FALSE]

----------------------------------------------------------------------------
(* Timers *)

\* dismissJob forgetting clearTimeout
ClearedTimeoutsKept(pending, timers, jobId) == pending

\* dismissJob: clearTimeout(timer) when the map holds a timer for the job
ClearedTimeouts(pending, timers, jobId) ==
    IF jobId \in timers THEN pending \ {jobId} ELSE pending

\* the registration placed before the lookup of the job
RegisteredTimersAlways(timers, jobsMap, jobId) == timers \cup {jobId}

\* handleComplete: the timer is registered for a job found in the map
RegisteredTimers(timers, jobsMap, jobId) ==
    IF jobId \in DOMAIN jobsMap THEN timers \cup {jobId} ELSE timers

\* handleError treated like handleComplete
TimersAfterErrorAuto(timers, jobsMap, jobId) ==
    IF jobId \in DOMAIN jobsMap THEN timers \cup {jobId} ELSE timers

\* handleError registers no timer
TimersAfterError(timers, jobsMap, jobId) == timers

----------------------------------------------------------------------------
(* The SQLite tables as the importers use them *)

\* A blogs row right after its insert: the counters have their defaults.
BlogRow(id, title, feedUrl, source) ==
    [id |-> id, title |-> title, feedUrl |-> feedUrl, importSource |-> source,
     postCount |-> 0, totalWordCount |-> 0, earliestDate |-> Null,
     latestDate |-> Null]

ImportJobRow(id, blogId, source) ==
    [id |-> id, blogId |-> blogId, source |-> source, state |-> "running",
     totalItems |-> 0, importedItems |-> 0]

ArticleRow(id, blogId, post) ==
    [id |-> id, blogId |-> blogId, link |-> post.link, words |-> post.words,
     pubdate |-> post.pubdate]

\* idx_articles_blog_link: INSERT OR IGNORE skips a row whose (blog_id, link)
\* is already there.
LinkTakenNoIndex(rows, blogId, link) == FALSE

LinkTaken(rows, blogId, link) ==
    \E a \in rows : a.blogId = blogId /\ a.link = link

\* The order of two pubdate texts as SQLite compares TEXT (byte by byte): a
\* digit comes before a letter, day and month names compare alphabetically.
DayRank(dow) ==
    CASE dow = "Fri" -> 1 [] dow = "Mon" -> 2 [] dow = "Sat" -> 3 [] dow = "Sun" -> 4
      [] dow = "Thu" -> 5 [] dow = "Tue" -> 6 [] dow = "Wed" -> 7

MonthNameRank(m) ==
    CASE m = 4 -> 1 [] m = 8 -> 2 [] m = 12 -> 3 [] m = 2 -> 4 [] m = 1 -> 5
      [] m = 7 -> 6 [] m = 6 -> 7 [] m = 3 -> 8 [] m = 5 -> 9 [] m = 11 -> 10
      [] m = 10 -> 11 [] m = 9 -> 12

TextKey(date) ==
    IF date.format = "iso8601" THEN <<0, date.y, date.m, date.d>>
    ELSE <<DayRank(date.dow), date.d, MonthNameRank(date.m), date.y>>

TextLessEq(a, b) ==
    LET ka == TextKey(a)
        kb == TextKey(b)
        diff == {i \in 1..4 : ka[i] # kb[i]}
    IN  diff = {} \/ LET f == CHOOSE i \in diff : \A k \in diff : i <= k
                     IN  ka[f] < kb[f]

\* MIN(pubdate) and MAX(pubdate): NULL is skipped, no value gives NULL.
MinText(dates) ==
    IF dates = {} THEN Null
    ELSE Some(CHOOSE d \in dates : \A e \in dates : TextLessEq(d, e))

MaxText(dates) ==
    IF dates = {} THEN Null
    ELSE Some(CHOOSE d \in dates : \A e \in dates : TextLessEq(e, d))

\* The day a pubdate text denotes.
Chrono(date) == date.y * 10000 + date.m * 100 + date.d

RowsOf(rows, blogId) == {a \in rows : a.blogId = blogId}

DatesOf(rows) == {a.pubdate[1] : a \in {x \in rows : x.pubdate # Null}}

----------------------------------------------------------------------------
(* importFromWayback, step by step *)

Rejected(rec, message) ==
    [rec EXCEPT !.pc = "done", !.result = "rejected", !.error = message]

\* The checks of currentFeed after fetchPaginatedFeed has returned.
AfterFeed(rec, feed) ==
    IF FeedVerdict(feed) # "" THEN Rejected(rec, FeedVerdict(feed))
    ELSE [rec EXCEPT !.pc = "insertBlog", !.title = feed[1].title,
                     !.items = feed[1].items]

FeedOf(rec) == Some([title |-> rec.title, items |-> rec.items])

Emit(rec, progress) == [rec EXCEPT !.events = Append(@, progress)]

ImportingProgress(rec) ==
    Progress(Len(rec.allPosts), 0, <<"Importing articles...">>, Null)

Min(a, b) == IF a < b THEN a ELSE b

RECURSIVE SumWords(_)
SumWords(rows) ==
    IF rows = {} THEN 0
    ELSE LET r == CHOOSE x \in rows : TRUE IN r.words + SumWords(rows \ {r})

importFromWayback(feedUrl) ==
    /\ imp.pc = "idle"
    /\ imp' = [imp EXCEPT !.pc = "page1", !.url = normalizeFeedUrl(feedUrl),
                          !.events = <<FirstProgress("wayback")>>]
    /\ UNCHANGED db

fetchFirstPage(script, body, textThrows) ==
    /\ imp.pc = "page1"
    /\ LET first == FirstPage(script, body, textThrows)
           seen == [imp EXCEPT !.page1 =
                        Some([fetched |-> fetchWithRetry(script, DefaultRetries).ok,
                              body |-> body, textThrows |-> textThrows])]
           pagination == IF first = Null THEN Null
                         ELSE PaginationOf(imp.url, first[1].text)
       IN  imp' = IF first = Null \/ pagination = Null
                  THEN AfterFeed(seen, first)
                  ELSE IF Len(first[1].items) = 0
                  THEN AfterFeed(seen, first)
                  ELSE [seen EXCEPT !.pc = "pages", !.title = first[1].title,
                                    !.items = first[1].items,
                                    !.pagination = pagination,
                                    !.page = 2, !.consecutiveEmpty = 0]
    /\ UNCHANGED db

CountAll(consecutiveEmpty, newItems) == consecutiveEmpty + 1

\* if (newItems === 0) consecutiveEmpty++; else consecutiveEmpty = 0;
CountEmpty(consecutiveEmpty, newItems) ==
    IF newItems = 0 THEN consecutiveEmpty + 1 ELSE 0

fetchNextPage(script, body, textThrows, maxFetches) ==
    /\ imp.pc = "pages"
    /\ imp.page > maxFetches + 1 => ~fetchWithRetry(script, PageRetries).ok
    /\ LET emitted == Emit(imp, Progress(0, Len(imp.items), <<"Fetching feed page...">>, Null))
           parsed == safeParseFeed(body)
           Exit(rec) == AfterFeed(rec, FeedOf(rec))
           Loop(rec) == IF rec.page <= MAX_PAGES /\ rec.consecutiveEmpty < 2
                        THEN rec ELSE Exit(rec)
           Empty(rec) == [rec EXCEPT !.consecutiveEmpty = @ + 1, !.page = @ + 1]
       IN  imp' =
             IF ~fetchWithRetry(script, PageRetries).ok THEN Exit(emitted)
             ELSE IF textThrows THEN Loop(Empty(emitted))
             ELSE IF ~PageLooksLikeXml(body.text) THEN Exit(emitted)
             ELSE IF parsed = Null THEN Loop(Empty(emitted))
             ELSE IF Len(parsed[1].items) = 0 THEN Loop(Empty(emitted))
             ELSE LET all == PushUnseen(imp.items, extractPostsFromFeed(parsed[1]))
                  IN  Loop([emitted EXCEPT
                              !.items = all,
                              !.consecutiveEmpty =
                                  CountEmpty(@, Len(all) - Len(imp.items)),
                              !.page = @ + 1])
    /\ UNCHANGED db

insertBlog(ok) ==
    /\ imp.pc = "insertBlog"
    /\ IF ok
       THEN /\ db' = [db EXCEPT !.blogs = @ \cup
                        {BlogRow(BlogId, imp.title, imp.url, "wayback")}]
            /\ imp' = [imp EXCEPT !.pc = "insertJob"]
       ELSE /\ db' = db
            /\ imp' = Rejected(imp, E_SAVE)

insertImportJob(ok) ==
    /\ imp.pc = "insertJob"
    /\ db' = IF ok
             THEN [db EXCEPT !.importJobs = @ \cup
                     {ImportJobRow(ImportJobId, BlogId, "wayback")}]
             ELSE db
    /\ imp' = [Emit(imp, Progress(0, 0,
                        <<"Querying Wayback Machine for historical snapshots...">>,
                        Some(imp.title)))
               EXCEPT !.pc = "cdx"]

fetchCdxSnapshots(script, rows, jsonThrows) ==
    /\ imp.pc = "cdx"
    /\ LET snapshots ==
               IF ~fetchWithRetry(script, DefaultRetries).ok THEN <<>>
               ELSE IF jsonThrows THEN <<>>
               ELSE IF Len(rows) < 2 THEN <<>>
               ELSE Tail(rows)
           selected == SelectSnapshots(snapshots)
           failed == \/ ~fetchWithRetry(script, DefaultRetries).ok
                     \/ jsonThrows
                     \/ rows = <<>>
           mapped == [imp EXCEPT !.allPosts = MapSetAll(<<>>, imp.items), !.i = 0,
                                 !.snapshots = snapshots, !.selected = selected,
                                 !.failures = IF failed THEN @ \cup {"cdx"} ELSE @]
       IN  imp' =
             IF Len(snapshots) > 0
             THEN [Emit(mapped, Progress(Len(selected), 0,
                            <<"Found archived snapshots. Discovering older posts...">>,
                            Null))
                   EXCEPT !.pc = "snapshots"]
             ELSE [Emit(Emit(mapped, Progress(0, 0,
                                 <<"No Wayback snapshots found. Importing posts from current feed...">>,
                                 Null)),
                        ImportingProgress(mapped))
                   EXCEPT !.pc = "batches"]
    /\ UNCHANGED db

fetchFeedSnapshot(script, body, textThrows) ==
    /\ imp.pc = "snapshots"
    /\ LET posts ==
               IF ~fetchWithRetry(script, DefaultRetries).ok THEN <<>>
               ELSE IF textThrows THEN <<>>
               ELSE IF safeParseFeed(body) = Null THEN <<>>
               ELSE extractPostsFromFeed(safeParseFeed(body)[1])
           failed == \/ ~fetchWithRetry(script, DefaultRetries).ok
                     \/ textThrows
                     \/ safeParseFeed(body) = Null
           merged == [imp EXCEPT !.allPosts = PushUnseen(@, posts), !.i = @ + 1,
                                 !.failures = IF failed THEN @ \cup {"snapshot"} ELSE @]
           stepped == Emit(merged, Progress(Len(imp.selected), imp.i + 1,
                                            <<"Processed snapshots.">>, Null))
       IN  imp' = IF stepped.i < Len(imp.selected) THEN stepped
                  ELSE [Emit(stepped, ImportingProgress(stepped))
                        EXCEPT !.pc = "batches", !.i = 0]
    /\ UNCHANGED db

\* The rows one batch writes between BEGIN TRANSACTION and COMMIT.
BatchRows(base, posts, tagFails, ftsFails) ==
    LET fresh == {k \in 1..Len(posts) :
                     ~LinkTaken(base.articles, BlogId, posts[k].link)}
    IN  [base EXCEPT
           !.articles = @ \cup
               {ArticleRow(<<BlogId, posts[k].link>>, BlogId, posts[k]) : k \in fresh},
           !.articleTags = @ \cup
               (IF tagFails THEN {}
                ELSE UNION {{[articleId |-> <<BlogId, posts[k].link>>, tag |-> t] :
                              t \in Range(posts[k].categories)} : k \in fresh}),
           !.articlesFts = @ \cup
               (IF ftsFails THEN {}
                ELSE {<<BlogId, posts[k].link>> : k \in {f \in fresh : posts[f].words > 0}}),
           !.inTransaction = TRUE]

insertBatch(failure, rollbackFails, tagFails, ftsFails) ==
    /\ imp.pc = "batches"
    /\ IF db.inTransaction
       THEN /\ imp' = Rejected(imp, E_BEGIN)
            /\ db' = db
       ELSE LET batch == SubSeq(imp.allPosts, imp.i + 1,
                                Min(imp.i + batchSize, Len(imp.allPosts)))
                reached == IF failure = "insert"
                           THEN SubSeq(batch, 1, Len(batch) - 1) ELSE batch
                during == BatchRows(db, reached, tagFails, ftsFails)
                stepped == Emit([imp EXCEPT !.imported = @ + Len(batch),
                                            !.i = @ + batchSize],
                                Progress(Len(imp.allPosts), imp.imported + Len(batch),
                                         <<"Imported articles.">>, Null))
            IN  /\ db' = IF failure = "none" THEN [during EXCEPT !.inTransaction = FALSE]
                         ELSE IF rollbackFails THEN during
                         ELSE db
                /\ imp' = IF stepped.i < Len(imp.allPosts) THEN stepped
                          ELSE [stepped EXCEPT !.pc = "counters"]

updateCounters(blogOk, jobOk) ==
    /\ imp.pc = "counters"
    /\ LET mine == RowsOf(db.articles, BlogId)
       IN  db' = [db EXCEPT
                    !.blogs = IF blogOk
                              THEN {IF b.id = BlogId
                                    THEN [b EXCEPT !.postCount = Cardinality(mine),
                                                   !.earliestDate = MinText(DatesOf(mine)),
                                                   !.latestDate = MaxText(DatesOf(mine)),
                                                   !.totalWordCount = SumWords(mine)]
                                    ELSE b : b \in @}
                              ELSE @,
                    !.importJobs = IF jobOk
                                   THEN {IF j.id = ImportJobId
                                         THEN [j EXCEPT !.state = "completed",
                                                        !.totalItems = Len(imp.allPosts),
                                                        !.importedItems = imp.imported]
                                         ELSE j : j \in @}
                                   ELSE @]
    /\ imp' = [Emit(imp, Progress(Len(imp.allPosts), imp.imported,
                                  CompleteMessage(imp.imported), Null))
               EXCEPT !.pc = "done", !.result = "resolved"]

----------------------------------------------------------------------------
(* The History4Feed importer (services/import/history4feed-api.ts) and the  *)
(* File importer (importFromJsonFile): inputs and the shared batch code     *)

jsonBatchSize == 50
BigFilePosts == 51    \* posts of the file that needs a second batch

RunIds == 1..MaxRuns

RunBlogId(r) == "run" \o ToString(r) \o "-blog"
RunJobId(r) == "run" \o ToString(r) \o "-import"

\* One page of /api/v1/feeds/<id>/posts/: the fetch throws, answers a
\* non-success status, answers a body that is not JSON, or answers a page.
H4fPage(kind, count, results) == [kind |-> kind, count |-> count, results |-> results]

PageNetworkError == H4fPage("throws", 0, <<>>)
PageServerError == H4fPage("status", 0, <<>>)
PageBadJson == H4fPage("badJson", 0, <<>>)
PageFresh == H4fPage("ok", 4, <<ItemA, ItemB>>)
PageRepeatsTagged == H4fPage("ok", 4, <<ItemOld, ItemA>>)
PageRepeatsUntagged == H4fPage("ok", 4, <<ItemOld, ItemB>>)
PageTwiceTagged == H4fPage("ok", 3, <<ItemOld, ItemA, ItemA>>)

H4fPages ==
    {PageNetworkError, PageServerError, PageBadJson, PageFresh, PageRepeatsTagged,
     PageRepeatsUntagged, PageTwiceTagged}

\* An export file: unreadable, not JSON, JSON of another shape, the Blog Log
\* export format, or the History4Feed format.
\* A parsed JSON document as the format detection reads it: what the top-level
\* value is and, for an object, what its members blog, articles and results
\* are ("absent" for no such key).
Doc(top, blog, articles, results) ==
    [top |-> top, blog |-> blog, articles |-> articles, results |-> results]

\* data.key: undefined on an array, a number or a string as on a missing key.
Member(doc, key) == IF doc.top = "object" THEN doc[key] ELSE "absent"

\* if (value): undefined, null, false, 0 and "" are falsy.
JsTruthy(value) == value \in {"object", "array", "number", "string", "true"}

E_TYPE == "TypeError"
E_FORMAT == "Unrecognized JSON format. Expected History4Feed or Blog Log export format."

\* The if / else if / else of the format detection: "export", "results", the
\* unrecognized-format error, or the TypeError of reading a property of null
\* or of calling map on a value that has none.
DetectFormat(doc) ==
    IF doc.top = "null" THEN E_TYPE
    ELSE IF JsTruthy(Member(doc, "blog")) /\ JsTruthy(Member(doc, "articles"))
    THEN "export"
    ELSE IF JsTruthy(Member(doc, "results"))
    THEN IF Member(doc, "results") = "array" THEN "results" ELSE E_TYPE
    ELSE E_FORMAT

ExportDoc == Doc("object", "object", "array", "absent")
ResultsDoc == Doc("object", "absent", "absent", "array")
NoDoc == Doc("none", "absent", "absent", "absent")

\* The file: unreadable, not JSON, or parsed into doc with its title and posts.
JsonFile(kind, doc, title, posts) ==
    [kind |-> kind, doc |-> doc, title |-> title, posts |-> posts]

UnreadableFile == JsonFile("unreadable", NoDoc, <<>>, <<>>)
GarbageFile == JsonFile("garbage", NoDoc, <<>>, <<>>)
OtherJsonFile == JsonFile("parsed", Doc("object", "absent", "absent", "absent"), <<>>, <<>>)
BlogOnlyFile == JsonFile("parsed", Doc("object", "object", "absent", "absent"), <<>>, <<>>)
ArrayFile == JsonFile("parsed", Doc("array", "absent", "absent", "absent"), <<>>, <<>>)
NullFile == JsonFile("parsed", Doc("null", "absent", "absent", "absent"), <<>>, <<>>)
NullResultsFile == JsonFile("parsed", Doc("object", "absent", "absent", "null"), <<>>, <<>>)
NullBlogFile == JsonFile("parsed", Doc("object", "null", "array", "absent"), <<>>, <<>>)
ResultsObjectFile == JsonFile("parsed", Doc("object", "absent", "absent", "object"), <<>>, <<>>)
ExportFile == JsonFile("parsed", ExportDoc, BlogTitleText, <<ItemA, ItemB>>)
ResultsFile == JsonFile("parsed", ResultsDoc, <<>>, <<ItemOld, ItemB, ItemB>>)
BigFile ==
    JsonFile("parsed", ExportDoc, BlogTitleText,
             [k \in 1..BigFilePosts |-> Item("/p" \o ToString(k), <<>>, 1, Null)])

JsonFiles ==
    {UnreadableFile, GarbageFile, OtherJsonFile, BlogOnlyFile, ArrayFile, NullFile,
     NullResultsFile, NullBlogFile, ResultsObjectFile, ExportFile, ResultsFile, BigFile}

\* A storage error during a batch: none, or the insert of the article, of the
\* first tag or of the search row of post `at`, or the COMMIT.
Fault(kind, at) == [kind |-> kind, at |-> at]

BatchFaults ==
    {Fault("none", 0), Fault("article", 2), Fault("tag", 1), Fault("fts", 1),
     Fault("commit", 0)}

\* What ROLLBACK does in the catch block: it works, or SQLite had already
\* rolled the transaction back for the storage error and ROLLBACK throws.
RollbackOutcomes == {"ok", "noTransaction"}

E_NETWORK == "Network request failed"
E_FEED_STATUS == "Failed to fetch feed"
E_JSON == "JSON parse error"
E_READ == "File could not be read"
E_STORAGE == "database error"
E_ROLLBACK == "cannot rollback - no transaction is active"

\* The body of the try block of one batch, post by post: INSERT OR IGNORE of
\* the article, INSERT of each tag, INSERT of the search row, imported++;
\* then COMMIT.  threw is "" or the kind of the error that left the block.
PostId(blogId, seq, k) == <<blogId, "n" \o ToString(seq + k)>>

\* Whether the INSERT OR IGNORE of post k is ignored: its link is in the table
\* or was inserted by an earlier post of the same batch.
TakenAt(st, blogId, posts, k) ==
    LinkTaken(st.tables.articles \cup
                  {ArticleRow(PostId(blogId, st.seq, j), blogId, posts[j]) : j \in 1..(k - 1)},
              blogId, posts[k].link)

\* What the statements of post k throw: "" (nothing), "storage" for an
\* injected failure, "constraint" for the article_tags insert of an article
\* that was ignored (its article_id is in no articles row, foreign keys are on).
ThrowAt(st, blogId, posts, k, fault) ==
    IF fault.kind = "article" /\ fault.at = k THEN "storage"
    ELSE IF posts[k].categories # <<>> /\ TakenAt(st, blogId, posts, k) THEN "constraint"
    ELSE IF posts[k].categories # <<>> /\ fault.kind = "tag" /\ fault.at = k THEN "storage"
    ELSE IF posts[k].words > 0 /\ fault.kind = "fts" /\ fault.at = k THEN "storage"
    ELSE ""

\* The body of the try block: the posts in order up to the first statement
\* that throws, then COMMIT.  imported counts every post passed, ignored or not.
InsertPosts(st, blogId, posts, fault) ==
    LET n == Len(posts)
        throwers == {k \in 1..n : ThrowAt(st, blogId, posts, k, fault) # ""}
        stop == IF throwers = {} THEN n + 1
                ELSE CHOOSE k \in throwers : \A j \in throwers : k <= j
        fresh == {k \in 1..(stop - 1) : ~TakenAt(st, blogId, posts, k)}
    IN  [tables |-> [st.tables EXCEPT
                       !.articles = @ \cup
                           {ArticleRow(PostId(blogId, st.seq, k), blogId, posts[k]) : k \in fresh},
                       !.articleTags = @ \cup
                           UNION {{[articleId |-> PostId(blogId, st.seq, k), tag |-> t] :
                                       t \in Range(posts[k].categories)} : k \in fresh},
                       !.articlesFts = @ \cup
                           {PostId(blogId, st.seq, k) : k \in {f \in fresh : posts[f].words > 0}}],
         imported |-> st.imported + (stop - 1),
         seq |-> st.seq + Min(stop, n),
         threw |-> IF stop <= n THEN ThrowAt(st, blogId, posts, stop, fault)
                   ELSE IF fault.kind = "commit" THEN "storage" ELSE ""]

\* One batch: BEGIN TRANSACTION, the try block, and the catch block with its
\* ROLLBACK.  error is "" or the error that leaves the importer.
PlainBatch(tables, blogId, posts, imported, seq, fault, rollback) ==
    IF tables.inTransaction
    THEN [tables |-> tables, imported |-> imported, seq |-> seq, failed |-> FALSE,
          threw |-> "", error |-> E_BEGIN]
    ELSE LET r == InsertPosts([tables |-> [tables EXCEPT !.inTransaction = TRUE],
                               imported |-> imported, seq |-> seq, threw |-> ""],
                              blogId, posts, fault)
         IN  IF r.threw = ""
             THEN [tables |-> [r.tables EXCEPT !.inTransaction = FALSE],
                   imported |-> r.imported, seq |-> r.seq, failed |-> FALSE,
                   threw |-> "", error |-> ""]
             ELSE [tables |-> tables, imported |-> r.imported, seq |-> r.seq,
                   failed |-> TRUE, threw |-> r.threw,
                   error |-> IF r.threw = "storage" /\ rollback = "noTransaction"
                             THEN E_ROLLBACK ELSE ""]

\* COUNT(*), MIN(pubdate), MAX(pubdate) and SUM(word_count) of one blog.
CountersOf(rows, blogId) ==
    [count |-> Cardinality(RowsOf(rows, blogId)),
     earliest |-> MinText(DatesOf(RowsOf(rows, blogId))),
     latest |-> MaxText(DatesOf(RowsOf(rows, blogId))),
     totalWords |-> SumWords(RowsOf(rows, blogId))]

NoCounters == [count |-> 0, earliest |-> Null, latest |-> Null, totalWords |-> 0]

NoFile == JsonFile("none", NoDoc, <<>>, <<>>)

IdleRun ==
    [source |-> "none", pc |-> "idle", file |-> NoFile, posts |-> <<>>, i |-> 0,
     page |-> 0, totalPosts |-> 0, imported |-> 0, seq |-> 0,
     counters |-> NoCounters, attempted |-> <<>>, result |-> "pending",
     error |-> "", reported |-> [total |-> 0, imported |-> 0]]

(* importFromHistory4Feed and importFromJsonFile, step by step.  A step runs *)
(* from one await to the next; the batch loop of the File importer has no    *)
(* await, so no other run moves while it is in that loop.                     *)

RunRejected(rec, message) ==
    [rec EXCEPT !.pc = "done", !.result = "rejected", !.error = message]

SyncBusy(r) == \E q \in RunIds \ {r} : runs[q].pc = "batches"

StartsNext(r) == \A q \in 1..(r - 1) : runs[q].pc # "idle"

Attempt(posts, b, fault) ==
    [links |-> [k \in 1..Len(posts) |-> posts[k].link], failed |-> b.failed,
     threw |-> b.threw, fault |-> fault]

\* The inserts of the Blog row and of the ImportJob row; either may throw.
CreateBlog(tables, r, title, source, storage) ==
    IF storage = "blogFails" THEN tables
    ELSE IF storage = "jobFails"
    THEN [tables EXCEPT !.blogs = @ \cup {BlogRow(RunBlogId(r), title, <<>>, source)}]
    ELSE [tables EXCEPT
            !.blogs = @ \cup {BlogRow(RunBlogId(r), title, <<>>, source)},
            !.importJobs = @ \cup {ImportJobRow(RunJobId(r), RunBlogId(r), source)}]

importFromHistory4Feed(r) ==
    /\ runs[r].pc = "idle"
    /\ StartsNext(r)
    /\ ~SyncBusy(r)
    /\ runs' = [runs EXCEPT ![r] = [IdleRun EXCEPT !.source = "history4feed",
                                                    !.pc = "feed"]]
    /\ UNCHANGED db

h4fFetchFeed(r, answer, storage) ==
    /\ runs[r].pc = "feed"
    /\ ~SyncBusy(r)
    /\ IF answer # "ok"
       THEN /\ runs' = [runs EXCEPT ![r] =
                          RunRejected(@, IF answer = "throws" THEN E_NETWORK
                                         ELSE E_FEED_STATUS)]
            /\ db' = db
       ELSE /\ db' = CreateBlog(db, r, BlogTitleText, "history4feed", storage)
            /\ runs' = [runs EXCEPT ![r] =
                          IF storage = "ok" THEN [@ EXCEPT !.pc = "pages", !.page = 1]
                          ELSE RunRejected(@, E_STORAGE)]

h4fFetchPage(r, page, hasNext, fault, rollback, maxPages) ==
    /\ runs[r].pc = "pages"
    /\ ~SyncBusy(r)
    /\ hasNext => runs[r].page < maxPages
    /\ LET asked == [runs[r] EXCEPT !.reported = [total |-> runs[r].totalPosts,
                                                    imported |-> runs[r].imported]]
           b == PlainBatch(db, RunBlogId(r), page.results, runs[r].imported,
                           runs[r].seq, fault, rollback)
           stepped == [asked EXCEPT
                         !.totalPosts = page.count, !.imported = b.imported,
                         !.seq = b.seq, !.page = @ + 1,
                         !.attempted = Append(@, Attempt(page.results, b, fault)),
                         !.reported = [total |-> page.count, imported |-> b.imported]]
       IN  CASE page.kind = "throws" ->
                  /\ runs' = [runs EXCEPT ![r] = RunRejected(asked, E_NETWORK)]
                  /\ db' = db
             [] page.kind = "badJson" ->
                  /\ runs' = [runs EXCEPT ![r] = RunRejected(asked, E_JSON)]
                  /\ db' = db
             [] page.kind = "status" ->
                  /\ runs' = [runs EXCEPT ![r] =
                                [asked EXCEPT !.pc = "counters",
                                              !.counters = CountersOf(db.articles, RunBlogId(r))]]
                  /\ db' = db
             [] page.kind = "ok" ->
                  /\ db' = b.tables
                  /\ runs' = [runs EXCEPT ![r] =
                                IF b.error # "" THEN RunRejected(stepped, b.error)
                                ELSE IF hasNext THEN stepped
                                ELSE [stepped EXCEPT
                                        !.pc = "counters",
                                        !.counters = CountersOf(b.tables.articles, RunBlogId(r))]]

importFromJsonFile(r, file) ==
    /\ runs[r].pc = "idle"
    /\ StartsNext(r)
    /\ ~SyncBusy(r)
    /\ runs' = [runs EXCEPT ![r] = [IdleRun EXCEPT !.source = "json_file",
                                                    !.pc = "read", !.file = file]]
    /\ UNCHANGED db

jsonReadFile(r, storage) ==
    /\ runs[r].pc = "read"
    /\ ~SyncBusy(r)
    /\ LET file == runs[r].file
           format == DetectFormat(file.doc)
           title == IF format = "export" THEN file.title ELSE <<"Imported Blog">>
       IN  IF file.kind # "parsed" \/ format \notin {"export", "results"}
           THEN /\ runs' = [runs EXCEPT ![r] =
                              RunRejected(@, CASE file.kind = "unreadable" -> E_READ
                                               [] file.kind = "garbage" -> E_JSON
                                               [] OTHER -> format)]
                /\ db' = db
           ELSE /\ db' = CreateBlog(db, r, title, "json_file", storage)
                /\ runs' = [runs EXCEPT ![r] =
                              IF storage # "ok" THEN RunRejected(@, E_STORAGE)
                              ELSE IF file.posts = <<>>
                              THEN [@ EXCEPT !.pc = "counters"]
                              ELSE [@ EXCEPT !.pc = "persist", !.posts = file.posts,
                                             !.totalPosts = Len(file.posts)]]

jsonBatch(r, fault, rollback) ==
    /\ runs[r].pc \in {"persist", "batches"}
    /\ ~SyncBusy(r)
    /\ LET rec == runs[r]
           batch == SubSeq(rec.posts, rec.i + 1,
                           Min(rec.i + jsonBatchSize, Len(rec.posts)))
           b == PlainBatch(db, RunBlogId(r), batch, rec.imported, rec.seq, fault,
                           rollback)
           stepped == [rec EXCEPT
                         !.imported = b.imported, !.seq = b.seq,
                         !.i = @ + jsonBatchSize,
                         !.attempted = Append(@, Attempt(batch, b, fault)),
                         !.reported = [total |-> Len(rec.posts), imported |-> b.imported]]
       IN  /\ db' = b.tables
           /\ runs' = [runs EXCEPT ![r] =
                         IF b.error # "" THEN RunRejected(stepped, b.error)
                         ELSE IF stepped.i < Len(rec.posts)
                         THEN [stepped EXCEPT !.pc = "batches"]
                         ELSE [stepped EXCEPT
                                 !.pc = "counters",
                                 !.counters = CountersOf(b.tables.articles, RunBlogId(r))]]

\* The update of the Blog row, the update of the ImportJob row, the last
\* progress event and the return; neither update is inside a try.
finishRun(r, blogOk, jobOk) ==
    /\ runs[r].pc = "counters"
    /\ ~SyncBusy(r)
    /\ LET c == runs[r].counters
           updatedBlogs ==
               {IF b.id = RunBlogId(r)
                THEN [b EXCEPT !.postCount = c.count, !.earliestDate = c.earliest,
                               !.latestDate = c.latest, !.totalWordCount = c.totalWords]
                ELSE b : b \in db.blogs}
           updatedJobs ==
               {IF j.id = RunJobId(r)
                THEN [j EXCEPT !.state = "completed",
                               !.totalItems = runs[r].totalPosts,
                               !.importedItems = runs[r].imported]
                ELSE j : j \in db.importJobs}
       IN  /\ db' = IF ~blogOk THEN db
                    ELSE IF ~jobOk THEN [db EXCEPT !.blogs = updatedBlogs]
                    ELSE [db EXCEPT !.blogs = updatedBlogs, !.importJobs = updatedJobs]
           /\ runs' = [runs EXCEPT ![r] =
                         IF blogOk /\ jobOk
                         THEN [@ EXCEPT !.pc = "done", !.result = "resolved",
                                        !.reported = [total |-> runs[r].totalPosts,
                                                      imported |-> runs[r].imported]]
                         ELSE RunRejected(@, E_STORAGE)]

----------------------------------------------------------------------------
(* TextRank summarization (services/nlp/textrank.ts)                        *)

MinSentenceWords == 4
MaxSentenceWords == 100
DampingNum == 17      \* damping = 0.85 = 17/20
DampingDen == 20
Iterations == 20
LongSentenceWords == 101

STOP_WORDS == {"the", "and", "this", "is", "what", "it", "then"}

\* Words that the filter w.length > 2 drops.
ShortWords == {"ox", "hi", "go"}

\* A sentence of the text: its words, and whether a terminator (. ! ? or a
\* newline) follows it.  Only the last sentence of a text can go without.
Sentence(words, terminated) == [words |-> words, terminated |-> terminated]

SentCatsDogs == Sentence(<<"the", "Cats", "and", "dogs">>, TRUE)
SentCats == Sentence(<<"this", "is", "the", "cats">>, TRUE)
SentBirds == Sentence(<<"what", "is", "the", "birds">>, TRUE)
SentStopOnly == Sentence(<<"this", "is", "what", "it">>, TRUE)
SentShort == Sentence(<<"hi", "there">>, TRUE)
SentLong == Sentence([k \in 1..LongSentenceWords |-> "word"], TRUE)
SentOpen == Sentence(<<"and", "then", "the", "birds", "go">>, FALSE)

SampleSentences ==
    {SentCatsDogs, SentCats, SentBirds, SentStopOnly, SentShort, SentLong, SentOpen}

Texts ==
    {t \in UNION {[1..n -> SampleSentences] : n \in 0..MaxSentences} :
        \A k \in 1..(Len(t) - 1) : t[k].terminated}

\* toLowerCase, strip of non-alphanumerics, split on whitespace, filter.
tokenize(sentence) ==
    {w \in Range(ToLowerCase(sentence.words)) : w \notin ShortWords /\ w \notin STOP_WORDS}

\* text.match(SENTENCE_REGEX): the terminated sentences; without any match
\* the whole text is the one sentence; else the matches of 4 to 100 words.
splitSentences(text) ==
    IF \A k \in 1..Len(text) : ~text[k].terminated THEN text
    ELSE SelectSeq(text, LAMBDA s : /\ s.terminated
                                    /\ Len(s.words) >= MinSentenceWords
                                    /\ Len(s.words) <= MaxSentenceWords)

\* A number as the fraction <<numerator, denominator>>.
jaccardSimilarity(a, b) ==
    IF a = {} \/ b = {} THEN <<0, 1>>
    ELSE <<Cardinality(a \cap b), Cardinality(a \cup b)>>

RECURSIVE Gcd(_, _)
Gcd(a, b) == IF b = 0 THEN a ELSE Gcd(b, a % b)

Lcm(a, b) == (a \div Gcd(a, b)) * b

RECURSIVE GcdAll(_)
GcdAll(S) ==
    IF S = {} THEN 0 ELSE LET x == CHOOSE y \in S : TRUE IN Gcd(x, GcdAll(S \ {x}))

RECURSIVE LcmAll(_)
LcmAll(S) ==
    IF S = {} THEN 1 ELSE LET x == CHOOSE y \in S : TRUE IN Lcm(x, LcmAll(S \ {x}))

RECURSIVE SumOver(_, _)
SumOver(S, f) ==
    IF S = {} THEN 0 ELSE LET x == CHOOSE y \in S : TRUE IN f[x] + SumOver(S \ {x}, f)

\* The similarity matrix of summarize: 0 on the diagonal.
SimilarityMatrix(sentences) ==
    [i \in 1..Len(sentences) |->
        [j \in 1..Len(sentences) |->
            IF i = j THEN <<0, 1>>
            ELSE jaccardSimilarity(tokenize(sentences[i]), tokenize(sentences[j]))]]

\* The scores as fractions num[i] / den over one denominator.
Scores(num, den) == [num |-> num, den |-> den]

Reduced(s) ==
    LET g == GcdAll(Range(s.num) \cup {s.den})
    IN  Scores([i \in 1..Len(s.num) |-> s.num[i] \div g], s.den \div g)

\* new Array(n).fill(1 / n)
InitialScores(n) == Scores([i \in 1..n |-> 1], n)

pagerankKeepsScores(matrix, scores) == scores

\* One pass of the loop over iter: newScores[j] starts at (1 - damping) / n
\* and takes damping * scores[i] * matrix[i][j] / outSum from every row i
\* whose outSum is positive.
pagerankIteration(matrix, scores) ==
    LET n == Len(matrix)
        common == LcmAll({matrix[i][j][2] : i \in 1..n, j \in 1..n})
        weight == [i \in 1..n |->
                      [j \in 1..n |-> matrix[i][j][1] * (common \div matrix[i][j][2])]]
        outSum == [i \in 1..n |-> SumOver(1..n, weight[i])]
        flowing == {i \in 1..n : outSum[i] > 0}
        rows == LcmAll({outSum[i] : i \in flowing})
        share == [j \in 1..n |->
                     [i \in 1..n |->
                         IF i \in flowing
                         THEN scores.num[i] * weight[i][j] * (rows \div outSum[i])
                         ELSE 0]]
    IN  Reduced(Scores(
            [j \in 1..n |->
                (DampingDen - DampingNum) * scores.den * rows
                    + DampingNum * n * SumOver(1..n, share[j])],
            DampingDen * n * scores.den * rows))

SelectFirst(scores, numSentences) == 1..numSentences

\* scores.map(...).sort((a, b) => b.score - a.score).slice(0, numSentences),
\* then sort by idx: the indices taken, in document order.  The sort is
\* stable, so of two equal scores the earlier sentence comes first.
SelectTop(scores, numSentences) ==
    LET n == Len(scores.num)
        before(i) == Cardinality({j \in 1..n :
                        \/ scores.num[j] > scores.num[i]
                        \/ scores.num[j] = scores.num[i] /\ j < i})
    IN  {i \in 1..n : before(i) < numSentences}

\* A subsequence by its set of indices, in order.
RECURSIVE Pick(_, _, _)
Pick(s, indices, k) ==
    IF k > Len(s) THEN <<>>
    ELSE IF k \in indices THEN <<s[k]>> \o Pick(s, indices, k + 1)
    ELSE Pick(s, indices, k + 1)

IdleTextRank ==
    [pc |-> "idle", text |-> <<>>, numSentences |-> 0, sentences |-> <<>>,
     matrix |-> <<>>, scores |-> Scores(<<>>, 1), iter |-> 0, selected |-> {},
     summary |-> <<>>]

\* summarize up to the call of pagerank.
summarize(text, numSentences) ==
    /\ tr.pc = "idle"
    /\ LET sentences == splitSentences(text)
           called == [IdleTextRank EXCEPT !.text = text, !.numSentences = numSentences,
                                          !.sentences = sentences]
       IN  tr' = IF Len(sentences) <= numSentences
                 THEN [called EXCEPT !.pc = "done", !.summary = sentences]
                 ELSE [called EXCEPT !.pc = "pagerank",
                                     !.matrix = SimilarityMatrix(sentences),
                                     !.scores = InitialScores(Len(sentences))]

\* One iteration of pagerank, of the first `iterations` ones.
pagerank(iterations) ==
    /\ tr.pc = "pagerank"
    /\ tr.iter < Min(Iterations, iterations)
    /\ tr' = [tr EXCEPT !.scores = pagerankIteration(tr.matrix, tr.scores),
                        !.iter = @ + 1]

\* pagerank returns; summarize selects and joins.
selectSentences(iterations) ==
    /\ tr.pc = "pagerank"
    /\ tr.iter = Min(Iterations, iterations)
    /\ LET top == SelectTop(tr.scores, tr.numSentences)
       IN  tr' = [tr EXCEPT !.pc = "done", !.selected = top,
                            !.summary = Pick(tr.sentences, top, 1)]

----------------------------------------------------------------------------
(* TF-IDF and embedding similarity (services/nlp/similarity.ts)             *)

TfIdfFloorDen == 100        \* score > 0.01
EmbeddingFloorDen == 10     \* score > 0.1

DocCats == <<"the", "cats", "Cats">>
DocCatsDogs == <<"cats", "and", "dogs">>
DocDogsBirds == <<"dogs", "dogs", "birds">>
DocBirds == <<"birds", "go">>
DocStopOnly == <<"the", "and">>

SampleDocs == {DocCats, DocCatsDogs, DocDogsBirds, DocBirds, DocStopOnly}

ArticleId(i) == "a" \o ToString(i)

\* The corpora: articles a1..aN with sample texts.
Corpora ==
    {[i \in DOMAIN d |-> [id |-> ArticleId(i), contentText |-> d[i]]] :
        d \in UNION {[1..n -> SampleDocs] : n \in 1..MaxDocs}}

\* tokenize of similarity.ts: the tokens in order, repeats kept.
tokenizeText(words) ==
    SelectSeq(ToLowerCase(words), LAMBDA w : w \notin ShortWords /\ w \notin STOP_WORDS)

CountOf(tokens, term) == Cardinality({k \in 1..Len(tokens) : tokens[k] = term})

\* computeTf: term -> count / len, kept as the count and the length.
computeTf(tokens) ==
    [count |-> [term \in Range(tokens) |-> CountOf(tokens, term)], len |-> Len(tokens)]

\* Math.log(docCount / (1 + count)) in thirds, rounded away from zero: zero
\* exactly when docCount = 1 + count, negative when the term is in every
\* document.
LogThirds(docCount, count) ==
    LET table == <<<<-2>>,
                   <<0, -1>>,
                   <<1, 0, -1>>,
                   <<2, 1, 0, -1>>,
                   <<3, 2, 1, 0, -1>>>>
    IN  table[docCount][count]

\* computeIdf: term -> log(docCount / (1 + documents that hold the term)).
computeIdf(documents) ==
    [term \in UNION {Range(documents[i]) : i \in 1..Len(documents)} |->
        LogThirds(Len(documents),
                  Cardinality({i \in 1..Len(documents) : term \in Range(documents[i])}))]

\* computeTfIdf: term -> tf * idf, as the numerator over the document length.
\* cosineSimilarity does not change when a vector is scaled, so the vectors
\* are kept by their numerators.
computeTfIdf(tf, idf) == [term \in DOMAIN tf.count |-> tf.count[term] * idf[term]]

\* A cosine as dotProduct, normA and normB before the square roots.
Cosine(dot, normA, normB) == [dot |-> dot, normA |-> normA, normB |-> normB]

cosineSimilarity(a, b) ==
    Cosine(SumOver(DOMAIN a \cap DOMAIN b, [k \in DOMAIN a \cap DOMAIN b |-> a[k] * b[k]]),
           SumOver(DOMAIN a, [k \in DOMAIN a |-> a[k] * a[k]]),
           SumOver(DOMAIN b, [k \in DOMAIN b |-> b[k] * b[k]]))

embeddingCosineSimilarity(a, b) ==
    IF Len(a) # Len(b) THEN Cosine(0, 0, 0)
    ELSE Cosine(SumOver(1..Len(a), [k \in 1..Len(a) |-> a[k] * b[k]]),
                SumOver(1..Len(a), [k \in 1..Len(a) |-> a[k] * a[k]]),
                SumOver(1..Len(b), [k \in 1..Len(b) |-> b[k] * b[k]]))

\* denom === 0 ? 0 : dotProduct / denom, read through its sign and square.
SignOf(c) ==
    IF c.normA = 0 \/ c.normB = 0 \/ c.dot = 0 THEN 0
    ELSE IF c.dot > 0 THEN 1 ELSE -1

Greater(c, d) ==
    CASE SignOf(c) # SignOf(d) -> SignOf(c) > SignOf(d)
      [] SignOf(c) = 1 -> c.dot * c.dot * d.normA * d.normB > d.dot * d.dot * c.normA * c.normB
      [] SignOf(c) = -1 -> c.dot * c.dot * d.normA * d.normB < d.dot * d.dot * c.normA * c.normB
      [] OTHER -> FALSE

\* score > 1 / floorDen
AboveFloor(c, floorDen) ==
    SignOf(c) = 1 /\ c.dot * c.dot * floorDen * floorDen > c.normA * c.normB

IsOne(c) == SignOf(c) = 1 /\ c.dot * c.dot = c.normA * c.normB

buildIndex(articles) ==
    LET tokenized == [i \in 1..Len(articles) |-> tokenizeText(articles[i].contentText)]
        idf == computeIdf(tokenized)
    IN  [i \in 1..Len(articles) |->
            [id |-> articles[i].id,
             vector |-> computeTfIdf(computeTf(tokenized[i]), idf)]]

TopFirst(results, topN) == SubSeq(results, 1, Min(topN, Len(results)))

\* results.sort((a, b) => b.score - a.score).slice(0, topN); the sort is
\* stable.
TopSorted(results, topN) ==
    LET m == Len(results)
        before(i) == Cardinality({j \in 1..m :
                        \/ Greater(results[j].score, results[i].score)
                        \/ /\ ~Greater(results[i].score, results[j].score)
                           /\ j < i})
        sorted == [k \in 1..m |-> results[CHOOSE i \in 1..m : before(i) = k - 1]]
    IN  SubSeq(sorted, 1, Min(topN, m))

\* The loop of findSimilar and findSimilarByEmbedding: every entry but the
\* query's own, scored, kept when above the floor.
Scored(entries, queryId, scores, floorDen) ==
    LET all == [i \in 1..Len(entries) |-> [id |-> entries[i].id, score |-> scores[i]]]
    IN  SelectSeq(all, LAMBDA r : r.id # queryId /\ AboveFloor(r.score, floorDen))

IdleSimilarity ==
    [pc |-> "idle", kind |-> "none", entries |-> <<>>, queryId |-> "",
     target |-> <<>>, topN |-> 0, results |-> <<>>]

buildTfIdfIndex(articles) ==
    /\ sim.pc = "idle"
    /\ sim' = [sim EXCEPT !.pc = "indexed", !.kind = "tfidf",
                          !.entries = buildIndex(articles)]

findSimilar(articleId, topN) ==
    /\ sim.pc = "indexed"
    /\ LET known == {i \in 1..Len(sim.entries) : sim.entries[i].id = articleId}
           source == sim.entries[CHOOSE i \in known : TRUE].vector
           scores == [i \in 1..Len(sim.entries) |->
                        cosineSimilarity(source, sim.entries[i].vector)]
       IN  sim' = [sim EXCEPT
                     !.pc = "found", !.queryId = articleId, !.topN = topN,
                     !.results = IF known = {} THEN <<>>
                                 ELSE TopSorted(Scored(sim.entries, articleId, scores,
                                                       TfIdfFloorDen), topN)]

findSimilarByEmbedding(targetEmbedding, allEmbeddings, targetId, topN) ==
    /\ sim.pc = "idle"
    /\ LET scores == [i \in 1..Len(allEmbeddings) |->
                        embeddingCosineSimilarity(targetEmbedding, allEmbeddings[i].vector)]
       IN  sim' = [sim EXCEPT
                     !.pc = "found", !.kind = "embedding", !.entries = allEmbeddings,
                     !.queryId = targetId, !.target = targetEmbedding, !.topN = topN,
                     !.results = TopSorted(Scored(allEmbeddings, targetId, scores,
                                                  EmbeddingFloorDen), topN)]

----------------------------------------------------------------------------
(* The summarization backlog (hooks/useSummaryGeneration.ts and             *)
(* generateSummariesBatch of services/nlp/textrank.ts)                      *)

YieldPeriod == 10

\* What happens to an article when its turn comes: "ok", summarize throws,
\* the UPDATE throws, or (generateSummariesBatch only) its text is too short
\* to be summarized.
ArticleFates == {"ok", "summarizeThrows", "saveThrows", "short"}

Article(i, fate) == [id |-> ArticleId(i), fate |-> fate]

\* The backlogs followed: up to MaxPending articles, at most one of them
\* with a fate other than "ok".
Backlogs(fates) ==
    {[i \in 1..n |-> Article(i, IF i = p THEN f ELSE "ok")] :
        n \in 0..MaxPending, p \in 0..MaxPending, f \in fates}

IdleBacklog ==
    [pc |-> "idle", kind |-> "none", pending |-> <<>>, i |-> 0, attempted |-> <<>>,
     saved |-> <<>>, yields |-> {}, generated |-> 0, running |-> FALSE,
     invalidated |-> FALSE]

\* The end of the hook's run: the queries are invalidated unless there was
\* nothing pending, and runningRef is released.
HookDone(b, any) ==
    [b EXCEPT !.pc = "done", !.running = FALSE, !.invalidated = any]

Ended(b) ==
    IF b.kind = "hook" THEN HookDone(b, TRUE) ELSE [b EXCEPT !.pc = "done"]

\* run of useSummaryGeneration, up to the loop.
run(pending) ==
    /\ backlog.pc = "idle"
    /\ LET started == [backlog EXCEPT !.kind = "hook", !.pending = pending,
                                      !.running = TRUE]
       IN  backlog' = IF pending = <<>> THEN HookDone(started, FALSE)
                      ELSE [started EXCEPT !.pc = "running"]

\* generateSummariesBatch, up to the loop.
generateSummariesBatch(articles) ==
    /\ backlog.pc = "idle"
    /\ LET started == [backlog EXCEPT !.kind = "batch", !.pending = articles]
       IN  backlog' = IF articles = <<>> THEN Ended(started)
                      ELSE [started EXCEPT !.pc = "running"]

\* After the body of the loop for index i (from 0): yield when i % 10 = 0,
\* else go on to the next index or end.
AfterBody(b) ==
    IF b.i % YieldPeriod = 0 THEN [b EXCEPT !.pc = "yielded", !.yields = @ \cup {b.i}, !.i = @ + 1]
    ELSE IF b.i + 1 = Len(b.pending) THEN Ended([b EXCEPT !.i = @ + 1])
    ELSE [b EXCEPT !.i = @ + 1]

\* One pass of the loop body.  The hook catches what summarize or the UPDATE
\* throws; generateSummariesBatch has no handler, so its promise rejects.
summarizeArticle ==
    /\ backlog.pc = "running"
    /\ LET article == backlog.pending[backlog.i + 1]
           skipped == backlog.kind = "batch" /\ article.fate = "short"
           tried == IF skipped THEN backlog
                    ELSE [backlog EXCEPT !.attempted = Append(@, article.id)]
           saved == [tried EXCEPT !.saved = Append(@, article.id), !.generated = @ + 1]
       IN  backlog' =
             CASE skipped -> AfterBody(tried)
               [] article.fate = "ok" -> AfterBody(saved)
               [] backlog.kind = "hook" -> AfterBody(tried)
               [] OTHER -> [tried EXCEPT !.pc = "rejected"]

\* The timer of the yield fires and the loop goes on.
resumeAfterYield ==
    /\ backlog.pc = "yielded"
    /\ backlog' = IF backlog.i = Len(backlog.pending) THEN Ended(backlog)
                  ELSE [backlog EXCEPT !.pc = "running"]

----------------------------------------------------------------------------
(* Operations of ImportManager *)

Init ==
    /\ jobs = <<>>
    /\ listeners = <<>>
    /\ queryClient = FALSE
    /\ autoDismissTimers = {}
    /\ timeouts = {}
    /\ task = [j \in JobIds |-> IdleTask]
    /\ arrived = [j \in JobIds |-> <<>>]
    /\ published = <<>>
    /\ lastOp = Op("init", 0)
    /\ imp = IdleImport
    /\ db = EmptyDb
    /\ runs = [r \in RunIds |-> IdleRun]
    /\ tr = IdleTextRank
    /\ sim = IdleSimilarity
    /\ backlog = IdleBacklog
    /\ wire = <<>>

setQueryClient ==
    /\ NoPendingCatch
    /\ ~queryClient
    /\ queryClient' = TRUE
    /\ published' = <<>>
    /\ lastOp' = Op("setQueryClient", 0)
    /\ UNCHANGED <<jobs, listeners, autoDismissTimers, timeouts, task, arrived>>

subscribe(l, maxListeners) ==
    /\ NoPendingCatch
    /\ Len(listeners) < maxListeners
    /\ listeners' = Append(listeners, l)
    /\ published' = <<>>
    /\ lastOp' = OpOn("subscribe", l)
    /\ UNCHANGED <<jobs, queryClient, autoDismissTimers, timeouts, task, arrived>>

\* the function subscribe returns: listeners.filter((x) => x !== l)
unsubscribe(l) ==
    /\ NoPendingCatch
    /\ l \in Range(listeners)
    /\ listeners' = SelectSeq(listeners, LAMBDA x : x # l)
    /\ published' = <<>>
    /\ lastOp' = OpOn("unsubscribe", l)
    /\ UNCHANGED <<jobs, queryClient, autoDismissTimers, timeouts, task, arrived>>

\* initJob, then the importer's run up to its first await; the importer keeps
\* the URL and the feed id it was called with.
Launch(jobId, displayName, source, opName, feedId) ==
    LET jobs1 == initJob(jobs, jobId, displayName, source)
        first == FirstProgress(source)
        jobs2 == handleProgressJobs(jobs1, jobId, first, 2)
    IN /\ jobs' = jobs2
       /\ published' = <<notify(listeners, jobs1), notify(listeners, jobs2)>>
       /\ task' = [task EXCEPT ![jobId] = [pc |-> "run", source |-> source, emitted |-> 1,
                                           url |-> displayName, feedId |-> feedId]]
       /\ arrived' = [arrived EXCEPT ![jobId] = <<<<"Import started">>, first.message>>]
       /\ lastOp' = Op(opName, jobId)

Refuse(displayName, opName) ==
    /\ lastOp' = Op(opName, 0)
    /\ published' = <<>>
    /\ UNCHANGED <<jobs, task, arrived>>

startWaybackImport(feedUrl, maxJobs) ==
    /\ NoPendingCatch
    /\ NextJobId <= maxJobs
    /\ IF isAlreadyImporting(jobs, feedUrl) # {}
       THEN Refuse(feedUrl, "startWaybackImport")
       ELSE Launch(NextJobId, feedUrl, "wayback", "startWaybackImport", "")
    /\ UNCHANGED <<listeners, queryClient, autoDismissTimers, timeouts>>

startHistory4FeedImport(baseUrl, feedId, maxJobs) ==
    /\ NoPendingCatch
    /\ NextJobId <= maxJobs
    /\ IF isAlreadyImporting(jobs, baseUrl) # {}
       THEN Refuse(baseUrl, "startHistory4FeedImport")
       ELSE Launch(NextJobId, baseUrl, "history4feed", "startHistory4FeedImport", feedId)
    /\ UNCHANGED <<listeners, queryClient, autoDismissTimers, timeouts>>

startJsonImport(maxJobs) ==
    /\ NoPendingCatch
    /\ NextJobId <= maxJobs
    /\ Launch(NextJobId, JsonDisplayName, "json_file", "startJsonImport", "")
    /\ UNCHANGED <<listeners, queryClient, autoDismissTimers, timeouts>>

WithoutJob(jobsMap, jobId) == [k \in DOMAIN jobsMap \ {jobId} |-> jobsMap[k]]

dismissJob(jobId) ==
    /\ NoPendingCatch
    /\ timeouts' = ClearedTimeouts(timeouts, autoDismissTimers, jobId)
    /\ autoDismissTimers' = autoDismissTimers \ {jobId}
    /\ jobs' = WithoutJob(jobs, jobId)
    /\ published' = <<notify(listeners, jobs')>>
    /\ lastOp' = Op("dismissJob", jobId)
    /\ UNCHANGED <<listeners, queryClient, task, arrived>>

\* the setTimeout callback of handleComplete: delete the map entry, dismissJob
autoDismiss(jobId) ==
    /\ NoPendingCatch
    /\ jobId \in timeouts
    /\ timeouts' = ClearedTimeouts(timeouts \ {jobId}, autoDismissTimers \ {jobId}, jobId)
    /\ autoDismissTimers' = autoDismissTimers \ {jobId}
    /\ jobs' = WithoutJob(jobs, jobId)
    /\ published' = <<notify(listeners, jobs')>>
    /\ lastOp' = Op("autoDismiss", jobId)
    /\ UNCHANGED <<listeners, queryClient, task, arrived>>

\* a progress event of job jobId's importer reaches handleProgress
handleProgress(jobId, progress, maxEv) ==
    /\ NoPendingCatch
    /\ task[jobId].pc = "run"
    /\ task[jobId].emitted < maxEv
    /\ progress \in LaterProgress(task[jobId].source)
    /\ jobs' = handleProgressJobs(jobs, jobId, progress, Len(arrived[jobId]) + 1)
    /\ published' = IF jobId \in DOMAIN jobs THEN <<notify(listeners, jobs')>> ELSE <<>>
    /\ arrived' = IF jobId \in DOMAIN jobs
                  THEN [arrived EXCEPT ![jobId] = Append(@, progress.message)]
                  ELSE arrived
    /\ task' = [task EXCEPT ![jobId].emitted = @ + 1]
    /\ lastOp' = Op("handleProgress", jobId)
    /\ UNCHANGED <<listeners, queryClient, autoDismissTimers, timeouts>>

\* the importer's promise resolves with blogId: the then-callback.  When
\* invalidateQueries throws, the callback ends before the timer is set and the
\* chained catch-callback is next.
handleComplete(jobId, throws) ==
    /\ NoPendingCatch
    /\ task[jobId].pc = "run"
    /\ throws => queryClient
    /\ LET now == Len(arrived[jobId]) + 1
           found == jobId \in DOMAIN jobs
           threw == found /\ throws
       IN /\ jobs' = IF found
                     THEN [jobs EXCEPT ![jobId] = CompletedJob(@, Some(jobId), now)]
                     ELSE jobs
          /\ published' = IF found THEN <<notify(listeners, jobs')>> ELSE <<>>
          /\ arrived' = IF found
                        THEN [arrived EXCEPT ![jobId] =
                                Append(@, CompleteMessage(jobs[jobId].importedItems))]
                        ELSE arrived
          /\ autoDismissTimers' = IF threw THEN autoDismissTimers
                                  ELSE RegisteredTimers(autoDismissTimers, jobs, jobId)
          /\ timeouts' = IF threw THEN timeouts
                         ELSE RegisteredTimers(timeouts, jobs, jobId)
          /\ task' = [task EXCEPT ![jobId].pc = IF threw THEN "thenThrew" ELSE "done"]
    /\ lastOp' = Op("handleComplete", jobId)
    /\ UNCHANGED <<listeners, queryClient>>

\* the catch-callback: the importer's promise rejected, or the then-callback threw
handleError(jobId, message) ==
    /\ \/ task[jobId].pc = "run" /\ NoPendingCatch /\ message \in ImporterErrors
       \/ task[jobId].pc = "thenThrew" /\ message = InvalidateError
    /\ LET now == Len(arrived[jobId]) + 1
           found == jobId \in DOMAIN jobs
       IN /\ jobs' = IF found
                     THEN [jobs EXCEPT ![jobId] = FailedJob(@, message, now)]
                     ELSE jobs
          /\ published' = IF found THEN <<notify(listeners, jobs')>> ELSE <<>>
          /\ arrived' = IF found
                        THEN [arrived EXCEPT ![jobId] = Append(@, FailedMessage(message))]
                        ELSE arrived
    /\ autoDismissTimers' = TimersAfterError(autoDismissTimers, jobs, jobId)
    /\ timeouts' = TimersAfterError(timeouts, jobs, jobId)
    /\ task' = [task EXCEPT ![jobId].pc = "done"]
    /\ lastOp' = Op("handleError", jobId)
    /\ UNCHANGED <<listeners, queryClient>>

Next ==
    \/ setQueryClient /\ UNCHANGED <<imp, db, runs, nlpVars, wire>>
    \/ \E l \in Listeners : subscribe(l, SpecListeners) /\ UNCHANGED <<imp, db, runs, nlpVars, wire>>
    \/ \E l \in Listeners : unsubscribe(l) /\ UNCHANGED <<imp, db, runs, nlpVars, wire>>
    \/ \E u \in Urls : startWaybackImport(u, MaxJobs) /\ UNCHANGED <<imp, db, runs, nlpVars, wire>>
    \/ \E u \in Urls, f \in {"feed1"} :
            startHistory4FeedImport(u, f, MaxJobs) /\ UNCHANGED <<imp, db, runs, nlpVars, wire>>
    \/ startJsonImport(MaxJobs) /\ UNCHANGED <<imp, db, runs, nlpVars, wire>>
    \/ \E j \in JobIds : dismissJob(j) /\ UNCHANGED <<imp, db, runs, nlpVars, wire>>
    \/ \E j \in JobIds : autoDismiss(j) /\ UNCHANGED <<imp, db, runs, nlpVars, wire>>
    \/ \E j \in JobIds : \E p \in LaterProgress(task[j].source) :
            handleProgress(j, p, MaxEvents) /\ UNCHANGED <<imp, db, runs, nlpVars, wire>>
    \/ \E j \in JobIds, t \in BOOLEAN : handleComplete(j, t) /\ UNCHANGED <<imp, db, runs, nlpVars, wire>>
    \/ \E j \in JobIds, m \in ImporterErrors \cup {InvalidateError} :
            handleError(j, m) /\ UNCHANGED <<imp, db, runs, nlpVars, wire>>

Spec == Init /\ [][Next]_vars

----------------------------------------------------------------------------
(* The observer specification: JSON imports, up to MaxListeners subscriptions *)

JsonProgress == Progress(2, 2, <<"Imported articles.">>, Null)

NextObs ==
    \/ setQueryClient /\ UNCHANGED <<imp, db, runs, nlpVars, wire>>
    \/ \E l \in Listeners : subscribe(l, MaxListeners) /\ UNCHANGED <<imp, db, runs, nlpVars, wire>>
    \/ \E l \in Listeners : unsubscribe(l) /\ UNCHANGED <<imp, db, runs, nlpVars, wire>>
    \/ startJsonImport(SoloJobs) /\ UNCHANGED <<imp, db, runs, nlpVars, wire>>
    \/ \E j \in JobIds : dismissJob(j) /\ UNCHANGED <<imp, db, runs, nlpVars, wire>>
    \/ \E j \in JobIds : autoDismiss(j) /\ UNCHANGED <<imp, db, runs, nlpVars, wire>>
    \/ \E j \in JobIds : handleProgress(j, JsonProgress, MaxEvents) /\ UNCHANGED <<imp, db, runs, nlpVars, wire>>
    \/ \E j \in JobIds, t \in BOOLEAN : handleComplete(j, t) /\ UNCHANGED <<imp, db, runs, nlpVars, wire>>
    \/ \E j \in JobIds, m \in ImporterErrors \cup {InvalidateError} :
            handleError(j, m) /\ UNCHANGED <<imp, db, runs, nlpVars, wire>>

ObsSpec == Init /\ [][NextObs]_vars

\* The runtime fires a pending timeout, and runs a pending catch-callback.
FairSpec ==
    /\ Init
    /\ [][NextObs]_vars
    /\ \A j \in JobIds : WF_vars(autoDismiss(j) /\ UNCHANGED <<imp, db, runs, nlpVars, wire>>)
    /\ \A j \in JobIds : WF_vars(handleError(j, InvalidateError) /\ UNCHANGED <<imp, db, runs, nlpVars, wire>>)

(* The log specification: one JSON import with up to MaxLogEvents events *)

NextLog ==
    \/ setQueryClient /\ UNCHANGED <<imp, db, runs, nlpVars, wire>>
    \/ startJsonImport(SoloJobs) /\ UNCHANGED <<imp, db, runs, nlpVars, wire>>
    \/ \E j \in JobIds : handleProgress(j, JsonProgress, MaxLogEvents) /\ UNCHANGED <<imp, db, runs, nlpVars, wire>>
    \/ \E j \in JobIds, t \in BOOLEAN : handleComplete(j, t) /\ UNCHANGED <<imp, db, runs, nlpVars, wire>>
    \/ \E j \in JobIds, m \in ImporterErrors \cup {InvalidateError} :
            handleError(j, m) /\ UNCHANGED <<imp, db, runs, nlpVars, wire>>

LogSpec == Init /\ [][NextLog]_vars

(* The dismissal specification: network imports are started, dismissed and  *)
(* ended; no progress event changes a job on the way.                       *)

NextDismiss ==
    \/ \E u \in Urls :
            startWaybackImport(u, MaxDismissJobs) /\ UNCHANGED <<imp, db, runs, nlpVars, wire>>
    \/ \E u \in Urls, f \in FeedIds :
            /\ startHistory4FeedImport(u, f, MaxDismissJobs)
            /\ UNCHANGED <<imp, db, runs, nlpVars, wire>>
    \/ \E j \in JobIds : dismissJob(j) /\ UNCHANGED <<imp, db, runs, nlpVars, wire>>
    \/ \E j \in JobIds : autoDismiss(j) /\ UNCHANGED <<imp, db, runs, nlpVars, wire>>
    \/ \E j \in JobIds : handleComplete(j, FALSE) /\ UNCHANGED <<imp, db, runs, nlpVars, wire>>
    \/ \E j \in JobIds, m \in ImporterErrors :
            handleError(j, m) /\ UNCHANGED <<imp, db, runs, nlpVars, wire>>

DismissSpec == Init /\ [][NextDismiss]_vars

(* The Wayback specification: one run of importFromWayback *)

WaybackUrls == {UrlB, UrlC}

NextWayback ==
    \/ \E u \in WaybackUrls : importFromWayback(u) /\ UNCHANGED <<mgrVars, runs, nlpVars, wire>>
    \/ \E s \in FetchScripts, b \in FirstPageBodies, t \in BOOLEAN :
            fetchFirstPage(s, b, t) /\ UNCHANGED <<mgrVars, runs, nlpVars, wire>>
    \/ \E s \in FetchScripts, b \in PageBodies, t \in BOOLEAN :
            fetchNextPage(s, b, t, MaxPageFetches) /\ UNCHANGED <<mgrVars, runs, nlpVars, wire>>
    \/ \E ok \in BOOLEAN : insertBlog(ok) /\ UNCHANGED <<mgrVars, runs, nlpVars, wire>>
    \/ \E ok \in BOOLEAN : insertImportJob(ok) /\ UNCHANGED <<mgrVars, runs, nlpVars, wire>>
    \/ \E s \in FetchScripts, r \in CdxRows, t \in BOOLEAN :
            fetchCdxSnapshots(s, r, t) /\ UNCHANGED <<mgrVars, runs, nlpVars, wire>>
    \/ \E s \in FetchScripts, b \in SnapshotBodies, t \in BOOLEAN :
            fetchFeedSnapshot(s, b, t) /\ UNCHANGED <<mgrVars, runs, nlpVars, wire>>
    \/ \E f \in {"none", "insert", "commit"}, r \in BOOLEAN, t \in BOOLEAN, x \in BOOLEAN :
            insertBatch(f, r, t, x) /\ UNCHANGED <<mgrVars, runs, nlpVars, wire>>
    \/ \E b \in BOOLEAN, j \in BOOLEAN : updateCounters(b, j) /\ UNCHANGED <<mgrVars, runs, nlpVars, wire>>

WaybackSpec == Init /\ [][NextWayback]_vars

(* The crawl specification: fetchPaginatedFeed followed up to the page cap.  *)
(* The server may repeat, empty or break a page among the first and the     *)
(* last StaleWindow pages of the crawl; every other page brings one older   *)
(* post.                                                                    *)

OlderPost(n) == Item("/older-" \o ToString(n), <<>>, 1, Null)

FreshPageBody(n) ==
    Body("rss", <<"<rss">>, Some(Feed(Some(BlogTitleText), <<OlderPost(n)>>)))

InStaleWindow(page) == page <= 1 + StaleWindow \/ page > MAX_PAGES - StaleWindow

CrawlBodies ==
    IF InStaleWindow(imp.page)
    THEN {FreshPageBody(Len(imp.items)), SamePageBody, EmptyRssBody, BrokenXmlBody,
          HtmlDoctypeBody}
    ELSE {FreshPageBody(Len(imp.items))}

NextCrawl ==
    \/ \E u \in WaybackUrls : importFromWayback(u) /\ UNCHANGED <<mgrVars, runs, nlpVars, wire>>
    \/ \E s \in FetchScripts, b \in FirstPageBodies, t \in BOOLEAN :
            fetchFirstPage(s, b, t) /\ UNCHANGED <<mgrVars, runs, nlpVars, wire>>
    \/ \E s \in FetchScripts, b \in CrawlBodies, t \in BOOLEAN :
            /\ t => InStaleWindow(imp.page)
            /\ fetchNextPage(s, b, t, MAX_PAGES)
            /\ UNCHANGED <<mgrVars, runs, nlpVars, wire>>

CrawlSpec == Init /\ [][NextCrawl]_vars

(* The selection specification: a live feed without pagination, a snapshot  *)
(* index of up to MaxSnapshots timestamps, and the crawl of the selection   *)

Timestamp(k) == ToString(2000 + k)

\* The JSON of the CDX answer: the header row, then one timestamp per row.
IndexRows(n) == <<"timestamp">> \o [k \in 1..n |-> Timestamp(k)]

OkScript == <<"ok", "ok", "ok">>

NextSelection ==
    \/ importFromWayback(UrlC) /\ UNCHANGED <<mgrVars, runs, nlpVars, wire>>
    \/ fetchFirstPage(OkScript, RssBody, FALSE) /\ UNCHANGED <<mgrVars, runs, nlpVars, wire>>
    \/ insertBlog(TRUE) /\ UNCHANGED <<mgrVars, runs, nlpVars, wire>>
    \/ insertImportJob(TRUE) /\ UNCHANGED <<mgrVars, runs, nlpVars, wire>>
    \/ /\ imp.pc = "cdx"
       /\ \E n \in 1..MaxSnapshots :
            /\ fetchCdxSnapshots(OkScript, IndexRows(n), FALSE)
            /\ UNCHANGED <<mgrVars, runs, nlpVars, wire>>
    \/ \E b \in SnapshotBodies :
            /\ fetchFeedSnapshot(OkScript, b, FALSE)
            /\ UNCHANGED <<mgrVars, runs, nlpVars, wire>>

SelectionSpec == Init /\ [][NextSelection]_vars

(* The traffic specification: one Wayback import seen from the network.    *)
(* Every fetchWithRetry call of the run is added to the wire with the wait  *)
(* its caller makes after it.  A run on a paginated feed meets every answer *)
(* on its feed pages, a run on a plain feed meets them on the archive.      *)

PageDelay == 500

ItemADraft == Item("/post-1", <<"draft">>, 7, Null)
ItemOldDraft == Item("/post-0", <<>>, 9, Null)
DraftBody ==
    Body("rss", <<"<rss">>, Some(Feed(Some(BlogTitleText), <<ItemADraft, ItemOldDraft, ItemOld>>)))

TrafficScripts ==
    FetchScripts \cup {<<"429", "429", "429", "ok">>, <<"throw", "ok", "ok">>}

ArchiveScripts == IF imp.pagination = Null THEN TrafficScripts ELSE {OkScript}

ArchiveBodies ==
    IF imp.pagination = Null
    THEN {OlderPageBody, SamePageBody, BrokenXmlBody, DraftBody}
    ELSE {OlderPageBody}

NextTraffic ==
    \/ \E u \in WaybackUrls :
            importFromWayback(u) /\ UNCHANGED <<mgrVars, runs, nlpVars, wire>>
    \/ \E b \in {RssBody, AtomBody} :
            /\ fetchFirstPage(OkScript, b, FALSE)
            /\ wire' = Append(wire, Call("feed", OkScript, DefaultRetries, b, <<>>))
            /\ UNCHANGED <<mgrVars, runs, nlpVars>>
    \/ \E s \in TrafficScripts, b \in {OlderPageBody, SamePageBody} :
            /\ fetchNextPage(s, b, FALSE, MaxPageFetches)
            /\ wire' = Append(wire, Call("page", s, PageRetries, b,
                                IF fetchWithRetry(s, PageRetries).ok
                                THEN <<Wait(PageDelay)>> ELSE <<>>))
            /\ UNCHANGED <<mgrVars, runs, nlpVars>>
    \/ insertBlog(TRUE) /\ UNCHANGED <<mgrVars, runs, nlpVars, wire>>
    \/ insertImportJob(TRUE) /\ UNCHANGED <<mgrVars, runs, nlpVars, wire>>
    \/ \E s \in ArchiveScripts, r \in CdxRows :
            /\ fetchCdxSnapshots(s, r, FALSE)
            /\ wire' = Append(wire, Call("cdx", s, DefaultRetries, Body("json", r, Null), <<>>))
            /\ UNCHANGED <<mgrVars, runs, nlpVars>>
    \/ \E s \in ArchiveScripts, b \in ArchiveBodies :
            /\ fetchFeedSnapshot(s, b, FALSE)
            /\ wire' = Append(wire, Call("snapshot", s, DefaultRetries, b,
                                <<Wait(RATE_LIMIT_MS)>>))
            /\ UNCHANGED <<mgrVars, runs, nlpVars>>

TrafficSpec == Init /\ [][NextTraffic]_vars

(* The importers specification: one History4Feed or File import with every  *)
(* input and every failure                                                    *)

StorageOutcomes == {"ok", "blogFails", "jobFails"}

SoloRunIds == 1..SoloRuns

NextImport ==
    \/ \E r \in SoloRunIds : importFromHistory4Feed(r) /\ UNCHANGED <<mgrVars, imp, nlpVars, wire>>
    \/ \E r \in SoloRunIds, a \in {"ok", "status", "throws"}, s \in StorageOutcomes :
            h4fFetchFeed(r, a, s) /\ UNCHANGED <<mgrVars, imp, nlpVars, wire>>
    \/ \E r \in SoloRunIds, p \in H4fPages, n \in BOOLEAN, f \in BatchFaults,
          b \in RollbackOutcomes :
            h4fFetchPage(r, p, n, f, b, MaxH4fPages) /\ UNCHANGED <<mgrVars, imp, nlpVars, wire>>
    \/ \E r \in SoloRunIds, f \in JsonFiles :
            importFromJsonFile(r, f) /\ UNCHANGED <<mgrVars, imp, nlpVars, wire>>
    \/ \E r \in SoloRunIds, s \in StorageOutcomes :
            jsonReadFile(r, s) /\ UNCHANGED <<mgrVars, imp, nlpVars, wire>>
    \/ \E r \in SoloRunIds, f \in BatchFaults, b \in RollbackOutcomes :
            jsonBatch(r, f, b) /\ UNCHANGED <<mgrVars, imp, nlpVars, wire>>
    \/ \E r \in SoloRunIds, b \in BOOLEAN, j \in BOOLEAN :
            finishRun(r, b, j) /\ UNCHANGED <<mgrVars, imp, nlpVars, wire>>

ImportSpec == Init /\ [][NextImport]_vars

(* The concurrent imports specification: MaxRuns imports interleaved on one  *)
(* database, with the inputs in which links repeat                            *)

RepeatingPages == {PageFresh, PageRepeatsUntagged, PageTwiceTagged}

RepeatingFiles == {ExportFile, ResultsFile}

NoFault == Fault("none", 0)

NextConcurrent ==
    \/ \E r \in RunIds : importFromHistory4Feed(r) /\ UNCHANGED <<mgrVars, imp, nlpVars, wire>>
    \/ \E r \in RunIds : h4fFetchFeed(r, "ok", "ok") /\ UNCHANGED <<mgrVars, imp, nlpVars, wire>>
    \/ \E r \in RunIds, p \in RepeatingPages, n \in BOOLEAN :
            h4fFetchPage(r, p, n, NoFault, "ok", MaxH4fPages) /\ UNCHANGED <<mgrVars, imp, nlpVars, wire>>
    \/ \E r \in RunIds, f \in RepeatingFiles :
            importFromJsonFile(r, f) /\ UNCHANGED <<mgrVars, imp, nlpVars, wire>>
    \/ \E r \in RunIds : jsonReadFile(r, "ok") /\ UNCHANGED <<mgrVars, imp, nlpVars, wire>>
    \/ \E r \in RunIds : jsonBatch(r, NoFault, "ok") /\ UNCHANGED <<mgrVars, imp, nlpVars, wire>>
    \/ \E r \in RunIds : finishRun(r, TRUE, TRUE) /\ UNCHANGED <<mgrVars, imp, nlpVars, wire>>

ConcurrentSpec == Init /\ [][NextConcurrent]_vars

(* The summarizer specification: summarize on every sample text *)

SentenceCounts == 1..MaxSummary

NextTextRank ==
    \/ \E t \in Texts, k \in SentenceCounts :
            summarize(t, k) /\ UNCHANGED <<mgrVars, importVars, wire, sim, backlog>>
    \/ pagerank(MaxIterations) /\ UNCHANGED <<mgrVars, importVars, wire, sim, backlog>>
    \/ selectSentences(MaxIterations) /\ UNCHANGED <<mgrVars, importVars, wire, sim, backlog>>

TextRankSpec == Init /\ [][NextTextRank]_vars

(* The similarity specification: an index or a list of embeddings, one query *)

SampleEmbeddings == {<<1, 0>>, <<1, 1>>, <<0, 1>>, <<-1, 0>>, <<0, 0>>, <<1>>}

EmbeddingLists ==
    {[i \in DOMAIN e |-> [id |-> ArticleId(i), vector |-> e[i]]] :
        e \in UNION {[1..n -> SampleEmbeddings] : n \in 1..MaxDocs}}

QueryIds == {ArticleId(i) : i \in 1..(MaxDocs + 1)}

NextSimilarity ==
    \/ /\ sim.pc = "idle"
       /\ \E a \in Corpora :
            buildTfIdfIndex(a) /\ UNCHANGED <<mgrVars, importVars, wire, tr, backlog>>
    \/ /\ sim.pc = "indexed"
       /\ \E q \in QueryIds, n \in 0..MaxTopN :
            findSimilar(q, n) /\ UNCHANGED <<mgrVars, importVars, wire, tr, backlog>>
    \/ /\ sim.pc = "idle"
       /\ \E t \in {<<1, 0>>, <<1, 1>>}, a \in EmbeddingLists, q \in QueryIds,
             n \in 0..MaxTopN :
            /\ findSimilarByEmbedding(t, a, q, n)
            /\ UNCHANGED <<mgrVars, importVars, wire, tr, backlog>>

SimilaritySpec == Init /\ [][NextSimilarity]_vars

(* The backlog specification: one run of the hook or of the batch function  *)

NextBacklog ==
    \/ \E pending \in Backlogs({"summarizeThrows", "saveThrows"}) :
            run(pending) /\ UNCHANGED <<mgrVars, importVars, wire, tr, sim>>
    \/ \E articles \in Backlogs({"summarizeThrows", "saveThrows", "short"}) :
            generateSummariesBatch(articles) /\ UNCHANGED <<mgrVars, importVars, wire, tr, sim>>
    \/ summarizeArticle /\ UNCHANGED <<mgrVars, importVars, wire, tr, sim>>
    \/ resumeAfterYield /\ UNCHANGED <<mgrVars, importVars, wire, tr, sim>>

BacklogSpec == Init /\ [][NextBacklog]_vars

----------------------------------------------------------------------------
(* Properties of the orchestrator *)

Terminal == {"completed", "failed"}
NetworkSources == {"wayback", "history4feed"}

LastArrived(j) == arrived[j][Len(arrived[j])]

\* C1: once a job's status is completed or failed, the job keeps that status
\* for as long as it stays in the job map.
C1_TerminalStatusNeverChanges ==
    [][\A j \in DOMAIN jobs :
          (jobs[j].status \in Terminal /\ j \in DOMAIN jobs')
              => jobs'[j].status = jobs[j].status]_vars

\* C2: no network job is added while a running network job was started for a
\* URL with the same normalized value.
C2_NoSecondJobForSameUrl ==
    [][\A j \in DOMAIN jobs' \ DOMAIN jobs :
          jobs'[j].source \in NetworkSources =>
              ~ \E k \in DOMAIN jobs :
                    /\ jobs[k].status = "running"
                    /\ jobs[k].source \in NetworkSources
                    /\ normalize(jobs[k].feedUrl) = normalize(jobs'[j].feedUrl)]_vars

\* C4: a timer is registered only for a completed job of the job map; a failed
\* job leaves the map only by dismissJob, a running job never by a timer.
C4_TimersOnlyForCompleted ==
    [][/\ \A j \in autoDismissTimers' \cup timeouts' :
              j \in DOMAIN jobs' /\ jobs'[j].status = "completed"
       /\ \A j \in DOMAIN jobs \ DOMAIN jobs' :
              /\ jobs[j].status = "failed"
                    => lastOp'.op = "dismissJob" /\ lastOp'.job = j
              /\ jobs[j].status = "running" => lastOp'.op # "autoDismiss"]_vars

\* C4 witness: a completed job holds a timer while a failed job is in the map.
C4_Witness ==
    /\ \E j \in autoDismissTimers : j \in timeouts
    /\ \E k \in DOMAIN jobs : jobs[k].status = "failed"

\* C5: dismissJob(id) leaves id out of the job map, of the timer map and of the
\* pending timeouts (no timeout is ever pending for a job out of the map); for
\* an id that was not in the job map, both maps are unchanged.
C5_DismissRemovesAndCancels ==
    [][/\ timeouts' \subseteq DOMAIN jobs'
       /\ lastOp'.op = "dismissJob" =>
              /\ lastOp'.job \notin DOMAIN jobs'
              /\ lastOp'.job \notin autoDismissTimers'
              /\ lastOp'.job \notin timeouts'
              /\ lastOp'.job \notin DOMAIN jobs =>
                     jobs' = jobs /\ autoDismissTimers' = autoDismissTimers]_vars

\* C5 witness: dismissJob has just removed a completed job whose timer was set
\* (no query client, so handleComplete ran to its end).
C5_Witness ==
    /\ lastOp.op = "dismissJob"
    /\ ~queryClient
    /\ arrived[lastOp.job] # <<>>
    /\ LastArrived(lastOp.job)[1] = "Import complete!"
    /\ lastOp.job \notin DOMAIN jobs

JobStateConsistent(job) ==
    CASE job.status = "running" ->
            job.error = Null /\ job.completedAt = Null /\ job.blogId = Null
      [] job.status = "completed" -> job.completedAt # Null /\ job.error = Null
      [] job.status = "failed" -> job.error # Null /\ job.completedAt # Null
      [] OTHER -> FALSE

\* C7: every job of every published job map has the fields its status calls for.
C7_PublishedJobsConsistent ==
    \A i \in 1..Len(published) :
        \A j \in DOMAIN published[i].jobs : JobStateConsistent(published[i].jobs[j])

\* C7 witness: a published map holds a completed job and a failed job.
C7_Witness ==
    \E i \in 1..Len(published) :
        /\ \E j \in DOMAIN published[i].jobs : published[i].jobs[j].status = "completed"
        /\ \E j \in DOMAIN published[i].jobs : published[i].jobs[j].status = "failed"

\* C9: an event of the importer of a job dismissed while running changes
\* neither the job map nor the timers and publishes nothing.
C9_DismissedJobEventsIgnored ==
    [][\A j \in JobIds :
          (task[j].pc = "run" /\ j \notin DOMAIN jobs /\ task'[j] # task[j])
              => /\ jobs' = jobs
                 /\ published' = <<>>
                 /\ autoDismissTimers' = autoDismissTimers
                 /\ timeouts' = timeouts]_vars

\* C9 witness: the importer of a dismissed job has resolved while another job
\* is in the map.
C9_Witness ==
    /\ lastOp.op = "handleComplete"
    /\ lastOp.job \notin DOMAIN jobs
    /\ LastArrived(lastOp.job)[1] # "Import complete!"
    /\ DOMAIN jobs # {}

\* C3: a completed job is eventually out of the job map.
C3_CompletedEventuallyRemoved ==
    \A j \in JobIds :
        (j \in DOMAIN jobs /\ jobs[j].status = "completed") ~> (j \notin DOMAIN jobs)

\* C6: every change of the job map is published; every round of notify() calls
\* all the listeners subscribed at that time, in order, whether or not one of
\* them throws, and the last round carries the job map as it is; a listener is
\* out of the list once its unsubscribe function has run.
C6_EveryObserverNotified ==
    [][/\ jobs' # jobs => published' # <<>>
       /\ \A i \in 1..Len(published') : published'[i].to = listeners'
       /\ published' # <<>> => published'[Len(published')].jobs = jobs'
       /\ lastOp'.op = "unsubscribe" => lastOp'.arg \notin Range(listeners')]_vars

\* C6 witness: a round has called the throwing listener and then the listener
\* subscribed after it, with a job in the map.
C6_Witness ==
    /\ listeners = <<"obsB", "obsA">>
    /\ published # <<>>
    /\ published[1].to = <<"obsB", "obsA">>
    /\ DOMAIN published[1].jobs # {}

LogMessages(log) == [i \in 1..Len(log) |-> log[i].message]

IsSuffix(s, t) ==
    Len(s) <= Len(t) /\ s = SubSeq(t, Len(t) - Len(s) + 1, Len(t))

\* C8: a job's log holds at most 100 entries, and they are the last messages
\* that arrived, in arrival order.
C8_LogBounded ==
    \A j \in DOMAIN jobs :
        /\ Len(jobs[j].log) <= LogCap
        /\ IsSuffix(LogMessages(jobs[j].log), arrived[j])

NoRows(d) ==
    /\ d.blogs = {}
    /\ d.importJobs = {}
    /\ d.articles = {}
    /\ d.articleTags = {}
    /\ d.articlesFts = {}

\* The first page as the environment served it: not fetched, not XML (an HTML
\* or JSON document), not parseable, or without a post.
FirstPageUnusable(p) ==
    \/ ~p.fetched
    \/ p.body.kind \in {"html", "json"}
    \/ p.body.parsed = Null
    \/ \A k \in 1..Len(p.body.parsed[1].items) : p.body.parsed[1].items[k].link = ""

\* C10: once the first page has been handled, a live feed that could not be
\* fetched, is not XML, cannot be parsed or has no post has made
\* importFromWayback reject, and a run rejected for its feed has written no
\* Blog, ImportJob, article, tag or search-index row.
C10_BadFeedRejectedBeforeWrites ==
    /\ (imp.page1 # Null /\ FirstPageUnusable(imp.page1[1]))
            => imp.result = "rejected" /\ imp.error \in {E_PARSE, E_EMPTY}
    /\ (imp.result = "rejected" /\ imp.error \in {E_PARSE, E_EMPTY}) => NoRows(db)

\* C10 witness: an HTML page that starts with <!DOCTYPE passed the XML check,
\* parsed to a feed without items, and the import was rejected as empty.
C10_Witness ==
    /\ imp.result = "rejected"
    /\ imp.error = E_EMPTY
    /\ imp.page1 # Null
    /\ imp.page1[1].body.kind = "html"
    /\ NoRows(db)

\* A body that is not a feed: an HTML or JSON document, or text the parser rejects.
NotAFeed(body) == body.kind \in {"html", "json"} \/ body.parsed = Null

ReachableScript == <<"ok", "ok", "ok">>

\* C11: a run rejected because the feed was unreachable (every attempt failed,
\* or a non-success status) carries an error different from the one given for
\* a reachable response that is not a feed, and different from the empty-feed
\* error.
C11_FatalErrorsDistinct ==
    (imp.result = "rejected" /\ imp.page1 # Null /\ ~imp.page1[1].fetched)
        => /\ imp.error # E_EMPTY
           /\ \A b \in {x \in FirstPageBodies : NotAFeed(x)} :
                  imp.error # FeedVerdict(FirstPage(ReachableScript, b, FALSE))

----------------------------------------------------------------------------
(* Properties of the History4Feed and File importers *)

BatchesOf(posts) == (Len(posts) + jsonBatchSize - 1) \div jsonBatchSize

\* C12: posts are persisted batch by batch, each batch in its own transaction;
\* a batch that fails leaves none of its rows and every later batch is still
\* attempted: a File import that has ended has attempted every batch of its
\* file, and the rows of the blog come from batches that did not fail.
C12_LaterBatchesAttempted ==
    \A r \in RunIds :
        (runs[r].source = "json_file" /\ runs[r].pc = "done" /\ runs[r].posts # <<>>)
            => /\ Len(runs[r].attempted) = BatchesOf(runs[r].posts)
               /\ \A a \in RowsOf(db.articles, RunBlogId(r)) :
                      \E k \in 1..Len(runs[r].attempted) :
                          /\ ~runs[r].attempted[k].failed
                          /\ a.link \in Range(runs[r].attempted[k].links)

JobOf(r) == CHOOSE j \in db.importJobs : j.id = RunJobId(r)

\* C13: when an importer finishes, the importedItems it reports and the job
\* shows equal the number of post rows persisted for that blog.
C13_ImportedItemsArePersistedRows ==
    \A r \in RunIds :
        runs[r].result = "resolved"
            => /\ runs[r].reported.imported = Cardinality(RowsOf(db.articles, RunBlogId(r)))
               /\ JobOf(r).importedItems = Cardinality(RowsOf(db.articles, RunBlogId(r)))

----------------------------------------------------------------------------
(* Properties of the aggregate counters *)

WaybackBlog == CHOOSE b \in db.blogs : b.id = BlogId

\* C14: after an importer resolves with blog id X, the Blog row's postCount is
\* the number of post rows of X and totalWordCount the sum of their word
\* counts, also when the recomputation met a storage error.
C14_CountersMatchRows ==
    imp.result = "resolved"
        => /\ WaybackBlog.postCount = Cardinality(RowsOf(db.articles, BlogId))
           /\ WaybackBlog.totalWordCount = SumWords(RowsOf(db.articles, BlogId))

\* C15: after an importer completes, the blog's earliestDate is chronologically
\* no later, and its latestDate no earlier, than the publish date of every
\* persisted post of the blog, whatever the textual format of the dates.
C15_DateRangeBoundsPosts ==
    (imp.result = "resolved" /\ WaybackBlog.earliestDate # Null)
        => \A a \in RowsOf(db.articles, BlogId) :
               a.pubdate # Null
                   => /\ Chrono(WaybackBlog.earliestDate[1]) <= Chrono(a.pubdate[1])
                      /\ Chrono(a.pubdate[1]) <= Chrono(WaybackBlog.latestDate[1])

----------------------------------------------------------------------------
(* Properties of the unique (blog id, link) index *)

RepeatsLink(links) == \E j, k \in 1..Len(links) : j < k /\ links[j] = links[k]

\* C16: in every reachable database state, under any interleaving of running
\* imports, no two post rows have the same (blog id, link) pair; a link
\* discovered twice within one import creates one row.
C16_BlogLinkUnique ==
    \A a, b \in db.articles :
        (a.blogId = b.blogId /\ a.link = b.link) => a = b

\* A committed batch delivered one link twice while another import was running.
C16_Witness ==
    \E r, q \in RunIds :
        /\ r # q
        /\ runs[q].pc \notin {"idle", "done"}
        /\ \E k \in 1..Len(runs[r].attempted) :
               /\ ~runs[r].attempted[k].failed
               /\ RepeatsLink(runs[r].attempted[k].links)
        /\ RowsOf(db.articles, RunBlogId(r)) # {}

----------------------------------------------------------------------------
(* Properties of re-running the File importer *)

\* Run r is a File import of an export file that an earlier File import of
\* the identical file has already completed.
SecondRunOfSameFile(r) ==
    /\ runs[r].source = "json_file"
    /\ DetectFormat(runs[r].file.doc) = "export"
    /\ runs[r].pc \in {"read", "persist", "batches"}
    /\ \E q \in RunIds \ {r} : /\ runs[q].source = "json_file"
                               /\ runs[q].result = "resolved"
                               /\ runs[q].file = runs[r].file

\* C17: running importFromJsonFile a second time on an identical export file
\* is a no-op: no step of the second run adds a Blog row or a post row.
C17_SecondRunIsNoOp ==
    [][\A r \in RunIds :
           (SecondRunOfSameFile(r) /\ runs'[r] # runs[r])
               => /\ db'.blogs = db.blogs
                  /\ db'.articles = db.articles]_vars

----------------------------------------------------------------------------
(* Properties of tag inserts *)

\* The insert of a tag of post fault.at threw in this batch.
TagInsertThrew(attempt) == attempt.fault.kind = "tag" /\ attempt.threw = "storage"

\* C18: when the insert of one tag of one post throws inside a batch, the
\* other posts of that batch are still committed.
C18_TagFailureKeepsBatch ==
    \A r \in RunIds :
        \A k \in 1..Len(runs[r].attempted) :
            TagInsertThrew(runs[r].attempted[k])
                => \A j \in 1..Len(runs[r].attempted[k].links) :
                       j # runs[r].attempted[k].fault.at
                           => LinkTaken(db.articles, RunBlogId(r),
                                        runs[r].attempted[k].links[j])

\* Page k of run r delivers a link twice, or a link that an earlier page of
\* the run has persisted.
DeliversPersistedLink(r, k) ==
    \/ RepeatsLink(runs[r].attempted[k].links)
    \/ \E e \in 1..(k - 1) :
           /\ ~runs[r].attempted[e].failed
           /\ Range(runs[r].attempted[e].links) \cap Range(runs[r].attempted[k].links) # {}

\* C19: in the History4Feed importer, when a page delivers a post whose link
\* is already persisted for the blog, no duplicate row is created and every
\* other post of that page is still committed.
C19_DoubleDeliveryKeepsPage ==
    \A r \in RunIds :
        runs[r].source = "history4feed"
            => /\ \A a, b \in RowsOf(db.articles, RunBlogId(r)) : a.link = b.link => a = b
               /\ \A k \in 1..Len(runs[r].attempted) :
                      (runs[r].attempted[k].fault.kind = "none" /\ DeliversPersistedLink(r, k))
                          => \A j \in 1..Len(runs[r].attempted[k].links) :
                                 LinkTaken(db.articles, RunBlogId(r),
                                           runs[r].attempted[k].links[j])

----------------------------------------------------------------------------
(* Properties of the History4Feed page loop *)

\* C20: in the History4Feed importer, once the Blog row has been created, a
\* network error, a non-success response or an unparseable body for a posts
\* page does not make the import fail: no run that has reached the page loop
\* is rejected with the error of a page fetch.
C20_PageErrorsDoNotReject ==
    \A r \in RunIds :
        (runs[r].source = "history4feed" /\ runs[r].page >= 1
            /\ runs[r].result = "rejected")
            => runs[r].error \notin {E_NETWORK, E_JSON}

----------------------------------------------------------------------------
(* Properties of the File importer's format detection *)

HasKey(doc, key) == doc.top = "object" /\ doc[key] # "absent"

HasAcceptedKeys(doc) ==
    (HasKey(doc, "blog") /\ HasKey(doc, "articles")) \/ HasKey(doc, "results")

\* C21: importFromJsonFile accepts a parsed document that has both top-level
\* keys blog and articles, or that has a top-level key results; every other
\* parsed document is rejected with the unrecognized-format error, with no
\* Blog, ImportJob or post row written.
C21_FormatDetection ==
    \A r \in RunIds :
        (runs[r].source = "json_file" /\ runs[r].file.kind = "parsed"
            /\ runs[r].pc \notin {"idle", "read"})
            => IF HasAcceptedKeys(runs[r].file.doc)
               THEN runs[r].error \notin {E_FORMAT, E_TYPE}
               ELSE /\ runs[r].result = "rejected"
                    /\ runs[r].error = E_FORMAT
                    /\ \A b \in db.blogs : b.id # RunBlogId(r)
                    /\ \A j \in db.importJobs : j.id # RunJobId(r)
                    /\ RowsOf(db.articles, RunBlogId(r)) = {}

----------------------------------------------------------------------------
(* Properties of the snapshot discovery of the Wayback importer *)

\* C22: a failure of the snapshot-index query or of a snapshot fetch or parse
\* never fails the job: the step leaves the import running, every post of the
\* live feed and every post found so far stays in the posts handed to
\* persistence, and the next snapshot (or persistence) follows.
C22_SnapshotFailuresNotFatal ==
    [][(imp.pc \in {"cdx", "snapshots"} /\ imp' # imp)
          => /\ imp'.result = "pending"
             /\ Links(imp.items) \subseteq Links(imp'.allPosts)
             /\ imp.pc = "snapshots"
                    => /\ Links(imp.allPosts) \subseteq Links(imp'.allPosts)
                       /\ IF imp.i + 1 < Len(imp.selected)
                          THEN imp'.pc = "snapshots" /\ imp'.i = imp.i + 1
                          ELSE imp'.pc = "batches"]_vars

\* An import resolved after one of its two snapshots failed; the other
\* snapshot contributed an older post.
C22_Witness ==
    /\ imp.result = "resolved"
    /\ "snapshot" \in imp.failures
    /\ Len(imp.selected) = 2
    /\ Links(imp.items) \subseteq {a.link : a \in RowsOf(db.articles, BlogId)}
    /\ \E a \in RowsOf(db.articles, BlogId) : a.link \notin Links(imp.items)

----------------------------------------------------------------------------
(* Properties of the summarizer *)

\* C23: for every text that has at most K sentences, whatever the length of
\* each sentence, summarize(text, K) returns the text unchanged: all of its
\* sentences, in order.
C23_ShortTextUnchanged ==
    (tr.pc = "done" /\ Len(tr.text) <= tr.numSentences) => tr.summary = tr.text

\* The k-th smallest element of a set of indices.
NthOf(indices, k) == CHOOSE i \in indices : Cardinality({x \in indices : x < i}) = k - 1

\* C24: for every text with more than K candidate sentences, summarize returns
\* exactly K distinct sentences of the text, in their document order, and no
\* unselected sentence has a strictly higher PageRank score than a selected one.
C24_TopSentencesInOrder ==
    (tr.pc = "done" /\ Len(tr.sentences) > tr.numSentences)
        => /\ tr.selected \subseteq 1..Len(tr.sentences)
           /\ Cardinality(tr.selected) = tr.numSentences
           /\ Len(tr.summary) = tr.numSentences
           /\ \A k \in 1..Len(tr.summary) :
                  tr.summary[k] = tr.sentences[NthOf(tr.selected, k)]
           /\ \A i \in tr.selected :
                  \A j \in (1..Len(tr.sentences)) \ tr.selected :
                      tr.scores.num[j] <= tr.scores.num[i]

\* A summary that skips an earlier sentence of lower score.
C24_Witness ==
    /\ tr.pc = "done"
    /\ Len(tr.sentences) > tr.numSentences
    /\ tr.iter > 0
    /\ \E i \in tr.selected :
           \E j \in (1..Len(tr.sentences)) \ tr.selected :
               j < i /\ tr.scores.num[j] < tr.scores.num[i]

----------------------------------------------------------------------------
(* Properties of pagerank *)

ScoreSum(scores) == SumOver(1..Len(scores.num), scores.num)

\* C25: in pagerank the sum of all scores is the same after every iteration
\* (it stays at its initial value 1), for every non-negative symmetric weight
\* matrix with zero diagonal, also when some row sums to zero.
C25_ScoreSumConstant ==
    tr.matrix # <<>> => ScoreSum(tr.scores) = tr.scores.den

\* Sentence i shares no word with any other sentence.
Isolated(i) ==
    \A j \in (1..Len(tr.sentences)) \ {i} :
        jaccardSimilarity(tokenize(tr.sentences[i]), tokenize(tr.sentences[j]))[1] = 0

\* C26: in pagerank over the similarity matrix built by summarize, a sentence
\* whose similarity to every other sentence is 0 has score exactly
\* (1 - damping) / n after every iteration.
C26_IsolatedSentenceBaseline ==
    (tr.matrix # <<>> /\ tr.iter >= 1)
        => \A i \in 1..Len(tr.sentences) :
               Isolated(i)
                   => tr.scores.num[i] * DampingDen * Len(tr.sentences)
                          = (DampingDen - DampingNum) * tr.scores.den

\* After an iteration, an isolated sentence next to two that share a word.
C26_Witness ==
    /\ tr.pc = "pagerank"
    /\ tr.iter >= 1
    /\ \E i, j \in 1..Len(tr.sentences) : Isolated(i) /\ ~Isolated(j)

SameScore(c, d) == ~Greater(c, d) /\ ~Greater(d, c)

\* C27: cosineSimilarity(a, b) = cosineSimilarity(b, a) for the sparse vectors
\* of an index, and cosineSimilarity(v, v) = 1 for every non-empty TF-IDF
\* vector that buildTfIdfIndex produces, whatever the size of the corpus.
C27_SymmetricAndSelfOne ==
    sim.kind = "tfidf" =>
        \A i \in 1..Len(sim.entries) :
            /\ \A j \in 1..Len(sim.entries) :
                    SameScore(cosineSimilarity(sim.entries[i].vector, sim.entries[j].vector),
                              cosineSimilarity(sim.entries[j].vector, sim.entries[i].vector))
            /\ DOMAIN sim.entries[i].vector # {} =>
                    IsOne(cosineSimilarity(sim.entries[i].vector, sim.entries[i].vector))

\* The score of an entry against the query of the finished search, computed
\* again from the entries.
QueryScore(e) ==
    IF sim.kind = "embedding" THEN embeddingCosineSimilarity(sim.target, e.vector)
    ELSE cosineSimilarity(
            sim.entries[CHOOSE i \in 1..Len(sim.entries) :
                            sim.entries[i].id = sim.queryId].vector,
            e.vector)

QueryFloor == IF sim.kind = "embedding" THEN EmbeddingFloorDen ELSE TfIdfFloorDen

InIndex(id) == \E i \in 1..Len(sim.entries) : sim.entries[i].id = id

Returned(id) == \E k \in 1..Len(sim.results) : sim.results[k].id = id

\* C28: findSimilar and findSimilarByEmbedding return at most topN entries,
\* never the query article itself, only entries scoring strictly above the
\* floor (0.01 for TF-IDF, 0.1 for embeddings), in non-increasing order of
\* score, and leave out no candidate above the floor that scores higher than
\* a returned one; findSimilar returns the empty list for an id that is not
\* in the index.
C28_TopNContract ==
    sim.pc = "found" =>
        IF sim.kind = "tfidf" /\ ~InIndex(sim.queryId) THEN sim.results = <<>>
        ELSE /\ Len(sim.results) <= sim.topN
             /\ \A k \in 1..Len(sim.results) :
                    /\ sim.results[k].id # sim.queryId
                    /\ \E i \in 1..Len(sim.entries) :
                            /\ sim.entries[i].id = sim.results[k].id
                            /\ sim.results[k].score = QueryScore(sim.entries[i])
                    /\ AboveFloor(sim.results[k].score, QueryFloor)
                    /\ \A l \in 1..Len(sim.results) :
                            k < l => ~Greater(sim.results[l].score, sim.results[k].score)
             /\ \A i \in 1..Len(sim.entries) :
                    (/\ sim.entries[i].id # sim.queryId
                     /\ AboveFloor(QueryScore(sim.entries[i]), QueryFloor)
                     /\ \E k \in 1..Len(sim.results) :
                            Greater(QueryScore(sim.entries[i]), sim.results[k].score))
                    => Returned(sim.entries[i].id)

\* A search of a TF-IDF index that returns the last article first and leaves
\* out an earlier article that is above the floor with a lower score.
C28_Witness ==
    /\ sim.pc = "found"
    /\ sim.kind = "tfidf"
    /\ sim.queryId = ArticleId(1)
    /\ sim.topN = 1
    /\ Len(sim.results) = 1
    /\ sim.results[1].id = ArticleId(3)
    /\ ~Returned(ArticleId(2))
    /\ AboveFloor(QueryScore(sim.entries[2]), QueryFloor)
    /\ Greater(sim.results[1].score, QueryScore(sim.entries[2]))

\* The articles of the backlog that are to be summarized, in order.
PendingIds ==
    LET todo == SelectSeq(backlog.pending, LAMBDA a : a.fate # "short")
    IN  [k \in 1..Len(todo) |-> todo[k].id]

FateOf(id) ==
    backlog.pending[CHOOSE k \in 1..Len(backlog.pending) : backlog.pending[k].id = id].fate

\* C29: a summarization backlog run takes the pending articles one at a time
\* in order, has saved each summary before it starts the next article, yields
\* after the articles at index 0, 10, 20, ..., and when summarizing or saving
\* an article throws, every later pending article is still processed; for the
\* hook's run loop and for generateSummariesBatch.
C29_BacklogRun ==
    /\ Len(backlog.attempted) <= Len(PendingIds)
    /\ backlog.attempted = SubSeq(PendingIds, 1, Len(backlog.attempted))
    /\ \A k \in 1..Len(backlog.attempted) :
            FateOf(backlog.attempted[k]) = "ok" =>
                \E l \in 1..Len(backlog.saved) : backlog.saved[l] = backlog.attempted[k]
    /\ backlog.pc \in {"running", "yielded", "done"} =>
            backlog.yields = {k \in 0..(backlog.i - 1) : k % YieldPeriod = 0}
    /\ backlog.pc \in {"done", "rejected"} => backlog.attempted = PendingIds

\* The posts known before each request of a later page, in the order of the
\* requests: the progress events of the crawl carry them.
KnownBefore ==
    LET asked == SelectSeq(imp.events, LAMBDA e : e.message = <<"Fetching feed page...">>)
    IN  [k \in 1..Len(asked) |-> asked[k].imported]

\* What the k-th requested page contributed.
Contributed(k) ==
    IF k = Len(KnownBefore) THEN Len(imp.items) - KnownBefore[k]
    ELSE KnownBefore[k + 1] - KnownBefore[k]

\* The requested pages at the end of the crawl so far that contributed
\* nothing.
TrailingEmpty ==
    Cardinality({k \in 1..Len(KnownBefore) :
                    \A l \in k..Len(KnownBefore) : Contributed(l) = 0})

\* C30: the paginated crawl ends: while it is about to request a page, the
\* page number is one more than at the previous request and at most 100, and
\* the last two requested pages have not both contributed zero new links (an
\* empty or unparsable page contributes zero); the consecutive count is zero
\* again after a page that contributed a new link.
C30_CrawlTerminates ==
    imp.pc = "pages" =>
        /\ imp.page = 2 + Len(KnownBefore)
        /\ imp.page <= MAX_PAGES
        /\ imp.consecutiveEmpty = TrailingEmpty
        /\ TrailingEmpty < 2

\* About to request page 100, after a page that brought nothing and an
\* earlier pair of pages of which the second reset the count.
C30_Witness ==
    /\ imp.pc = "pages"
    /\ imp.page = MAX_PAGES
    /\ imp.consecutiveEmpty = 1
    /\ Contributed(1) = 0
    /\ Contributed(2) > 0

\* C31: when the snapshot index holds more than 30 timestamps, the selection
\* that is crawled holds at most 30.
C31_SelectionCapped ==
    Len(imp.snapshots) > SnapshotLimit => Len(imp.selected) <= SnapshotLimit

PositionOf(timestamp) ==
    CHOOSE k \in 1..Len(imp.snapshots) : imp.snapshots[k] = timestamp

\* C32: for a non-empty snapshot index the selection that is crawled holds
\* the oldest and the newest timestamp, only timestamps of the index, and
\* lists them in the order of the index.
C32_SelectionKeepsEnds ==
    imp.snapshots # <<>> =>
        /\ \E k \in 1..Len(imp.selected) : imp.selected[k] = imp.snapshots[1]
        /\ \E k \in 1..Len(imp.selected) :
                imp.selected[k] = imp.snapshots[Len(imp.snapshots)]
        /\ \A k \in 1..Len(imp.selected) :
                \E l \in 1..Len(imp.snapshots) : imp.snapshots[l] = imp.selected[k]
        /\ \A k \in 1..(Len(imp.selected) - 1) :
                PositionOf(imp.selected[k]) < PositionOf(imp.selected[k + 1])

\* An index of 60 timestamps: every second one is picked, the newest is
\* added, and the crawl of the selection has ended.
C32_Witness ==
    /\ imp.pc = "batches"
    /\ Len(imp.snapshots) = 2 * SnapshotLimit
    /\ Len(imp.selected) = SnapshotLimit + 1
    /\ imp.selected[SnapshotLimit] # imp.snapshots[Len(imp.snapshots)]

\* The posts each snapshot call on the wire delivered, as its feed lists
\* them; none for a call that failed or a feed that does not parse.
SnapshotCalls == {k \in 1..Len(wire) : wire[k].to = "snapshot"}

DeliveredBy(k) ==
    IF wire[k].ok /\ wire[k].body[1].parsed # Null
    THEN SelectSeq(wire[k].body[1].parsed[1].items, LAMBDA p : p.link # "")
    ELSE <<>>

Delivering(link) == {k \in SnapshotCalls : link \in Links(DeliveredBy(k))}

FirstDelivered(link) ==
    LET k == CHOOSE c \in Delivering(link) : \A d \in Delivering(link) : c <= d
        at == CHOOSE i \in 1..Len(DeliveredBy(k)) :
                /\ DeliveredBy(k)[i].link = link
                /\ \A j \in 1..(i - 1) : DeliveredBy(k)[j].link # link
    IN  DeliveredBy(k)[at]

\* C33: the posts the Wayback importer hands to persistence hold exactly one
\* post per distinct link found in the live feed or in a processed snapshot:
\* the live-feed entry for a link of the live feed, else the entry of the
\* first processed snapshot that has the link.
C33_OnePostPerLink ==
    imp.pc = "batches" =>
        /\ \A a, b \in 1..Len(imp.allPosts) :
                a # b => imp.allPosts[a].link # imp.allPosts[b].link
        /\ Links(imp.allPosts) =
                Links(imp.items) \cup UNION {Links(DeliveredBy(k)) : k \in SnapshotCalls}
        /\ \A a \in 1..Len(imp.allPosts) :
                IF imp.allPosts[a].link \in Links(imp.items)
                THEN \E k \in 1..Len(imp.items) : imp.items[k] = imp.allPosts[a]
                ELSE imp.allPosts[a] = FirstDelivered(imp.allPosts[a].link)

\* Two snapshots were processed: the first has drafts of a live post and of
\* an older post, the second has the older post again.
C33_Witness ==
    /\ imp.pc = "batches"
    /\ \E k, l \in SnapshotCalls :
            /\ k < l
            /\ wire[k].ok /\ wire[k].body = Some(DraftBody)
            /\ wire[l].ok /\ wire[l].body = Some(OlderPageBody)
    /\ \E a \in 1..Len(imp.allPosts) : imp.allPosts[a] = ItemOldDraft
    /\ \E a \in 1..Len(imp.allPosts) : imp.allPosts[a] = ItemA

RequestsOf(call) == {i \in 1..Len(call.trace) : call.trace[i].kind = "request"}

\* The attempt number of the request at place i of a trace, from 0.
AttemptAt(call, i) == Cardinality({j \in RequestsOf(call) : j < i})

\* C34: a fetchWithRetry call issues at most maxRetries requests (3 by
\* default, 2 for feed pages) and returns null when none succeeded; every 429
\* answer is followed at once by a wait of RATE_LIMIT_MS * 2^(attempt + 1);
\* a status that is neither 429 nor a success ends the call with null and
\* without another request.
C34_BoundedRetries ==
    \A k \in 1..Len(wire) :
        LET call == wire[k] IN
        /\ call.maxRetries = IF call.to = "page" THEN PageRetries ELSE DefaultRetries
        /\ Cardinality(RequestsOf(call)) <= call.maxRetries
        /\ call.ok <=> \E i \in RequestsOf(call) : call.trace[i].answer = "ok"
        /\ \A i \in RequestsOf(call) :
            /\ call.trace[i].answer = "429" =>
                /\ i < Len(call.trace)
                /\ call.trace[i + 1] = Wait(RATE_LIMIT_MS * Pow2(AttemptAt(call, i) + 1))
            /\ call.trace[i].answer \in {"status", "ok"} => i = Len(call.trace)
            /\ call.trace[i].answer = "status" => ~call.ok

\* A snapshot call answered 429 three times: three requests, waits of 2200,
\* 4400 and 8800 ms, then null.
C34_Witness ==
    \E k \in 1..Len(wire) :
        /\ wire[k].to = "snapshot"
        /\ ~wire[k].ok
        /\ wire[k].trace = <<Request("429"), Wait(2 * RATE_LIMIT_MS),
                             Request("429"), Wait(4 * RATE_LIMIT_MS),
                             Request("429"), Wait(8 * RATE_LIMIT_MS)>>

ArchiveCalls == {k \in 1..Len(wire) : wire[k].to \in {"cdx", "snapshot"}}

\* C35: when an archive request is answered 429 three times in a row and the
\* next attempt would succeed, that attempt is made and the posts of the
\* snapshot are merged into the discovered posts.
C35_FourthAttemptMade ==
    \A k \in ArchiveCalls :
        (/\ Len(wire[k].answers) > DefaultRetries
         /\ \A a \in 1..DefaultRetries : wire[k].answers[a] = "429"
         /\ wire[k].answers[DefaultRetries + 1] = "ok")
        => /\ Cardinality(RequestsOf(wire[k])) = DefaultRetries + 1
           /\ wire[k].ok
           /\ wire[k].to = "snapshot" => Links(DeliveredBy(k)) \subseteq Links(imp.allPosts)

\* What went to the archive service, in order: the trace of every archive
\* call and the wait after it.
RECURSIVE ArchiveEventsFrom(_)
ArchiveEventsFrom(k) ==
    IF k > Len(wire) THEN <<>>
    ELSE IF k \in ArchiveCalls
    THEN wire[k].trace \o wire[k].after \o ArchiveEventsFrom(k + 1)
    ELSE ArchiveEventsFrom(k + 1)

ArchiveEvents == ArchiveEventsFrom(1)

\* C36: between any two consecutive requests of one import to the archive
\* service (the snapshot-index query, the snapshot fetches, their retries)
\* there is a wait of at least RATE_LIMIT_MS.
C36_MinimumDelay ==
    \A i \in 1..(Len(ArchiveEvents) - 1) :
        (ArchiveEvents[i].kind = "request" /\ i < Len(ArchiveEvents))
        => /\ ArchiveEvents[i + 1].kind = "wait"
           /\ ArchiveEvents[i + 1].ms >= RATE_LIMIT_MS

(* Properties of dismissal and of parallel imports *)

InFlight == {j \in JobIds : task[j].pc = "run" /\ task[j].source \in NetworkSources}

\* C37: at most one network importer is in flight at any time for a given
\* normalized feed URL (and feed id), whatever is started and dismissed:
\* dismissing a running job does not let a second import of the same URL
\* start while the first importer is still running.
C37_OneImporterPerUrl ==
    \A j, k \in InFlight :
        (/\ j # k
         /\ task[j].source = task[k].source
         /\ task[j].feedId = task[k].feedId)
        => normalize(task[j].url) # normalize(task[k].url)

\* A running History4Feed job on the same server for another feed id, and
\* none for this feed id.
OtherFeedRunning(baseUrl, feedId) ==
    /\ \E j \in DOMAIN jobs :
            /\ jobs[j].status = "running"
            /\ jobs[j].source = "history4feed"
            /\ task[j].pc = "run"
            /\ normalize(task[j].url) = normalize(baseUrl)
            /\ task[j].feedId # feedId
    /\ ~ \E j \in DOMAIN jobs :
            /\ jobs[j].status = "running"
            /\ jobs[j].source = "history4feed"
            /\ normalize(task[j].url) = normalize(baseUrl)
            /\ task[j].feedId = feedId

\* C38: while a History4Feed import is running, startHistory4FeedImport for
\* another feed id of the same server returns a new job id, not null, and a
\* second job is tracked.
C38_ParallelFeedsOfOneServer ==
    [][\A u \in Urls, f \in FeedIds :
          (OtherFeedRunning(u, f) /\ startHistory4FeedImport(u, f, MaxDismissJobs))
              => /\ lastOp'.job # 0
                 /\ lastOp'.job \in DOMAIN jobs'
                 /\ Cardinality(DOMAIN jobs') = Cardinality(DOMAIN jobs) + 1]_vars

(* Properties of the published counters and of the transactions *)

\* C39: in every job state published to observers, for every importer and at
\* every point of its run, 0 <= importedItems <= totalItems.
C39_ImportedWithinTotal ==
    \A j \in DOMAIN jobs :
        /\ 0 <= jobs[j].importedItems
        /\ jobs[j].importedItems <= jobs[j].totalItems

\* C40: no importer holds a database transaction open across a suspension
\* point: no transaction is open between the steps of the importers, and no
\* BEGIN is issued while one is open ("cannot start a transaction within a
\* transaction" is never thrown), also after a failed ROLLBACK.
C40_NoOpenTransaction ==
    /\ ~db.inTransaction
    /\ imp.error # E_BEGIN
    /\ \A r \in RunIds : runs[r].error # E_BEGIN

====
